---- MODULE Spec2Model ----
(***************************************************************************)
(* The voice-robot controller (src/src/core/controller.py) together with   *)
(* the playback pipeline (src/src/audio/playback.py), the capture pipeline *)
(* (src/src/audio/capture.py), the wake-word monitor                       *)
(* (src/src/wake_word/detector.py) and the remote session                  *)
(* (src/src/gemini/session.py), as one cooperative (asyncio) state machine.*)
(*                                                                         *)
(* Scheduling.  All coroutines run on one event loop.  A task runs from    *)
(* one suspension point to the next without interleaving; `cpu` names the  *)
(* task that goes on running across several actions of the model ("none"   *)
(* when every task is suspended).  Task.cancel() queues the unwinding of   *)
(* the cancelled task on the loop's ready queue, and create_task() queues   *)
(* the first step of the new task there, so both run as soon as the        *)
(* running task suspends and before any task is resumed by a later event:  *)
(* a resumption needs Free (nobody runs, the ready queue is empty).        *)
(***************************************************************************)
EXTENDS Integers, Sequences, FiniteSets, TLC

\* ---- bounds of the model ----
MaxWakes == 1       \* wake-word detections in one run
MaxMsgs == 5        \* messages dispatched by receive loops in one run
MaxStops == 1       \* calls of stop() before start(), and after start() was entered
MaxDrain == 2       \* drain tasks of one playback pipeline alive at a time
TimeoutTicks == 2   \* conversation timeout of the settings and of the configured
                    \* personality, in polls of the timeout monitor
FriendlyTicks == 1  \* conversation timeout of the "friendly" personality, in polls
MaxFails == 2       \* consecutive connection attempts ending in IDLE that are
                    \* followed by one more wake word
MaxCleanups == 1    \* runs of _cleanup() besides the one of start()

\* ---- program constants ----
BufferChunks == 3   \* AudioPlaybackStream(buffer_chunks=3)

RobotState == {"IDLE", "CONNECTING", "CONVERSATION", "SHUTTING_DOWN"}

\* message tags of ServerMessage.type
MsgTypes == {"setup_complete", "audio", "transcription", "input_transcription",
             "tool_call", "turn_complete", "interrupted",
             "tool_call_cancellation", "go_away", "error"}

Sentinel == 0       \* the None that flush() puts on the queue

\* what PersonalityManager._load_all found in the personalities directory:
\* the configured default, only "friendly", or neither
Personalities == {"configured", "friendly", "missing"}

\* a faulty variant of PersonalityTimeout: the timeout of the fallback
\* personality is not read
PersonalityTimeoutSame(p) == TimeoutTicks

\* conversation_timeout_seconds of the personality that _run_connecting uses
PersonalityTimeout(p) == IF p = "friendly" THEN FriendlyTicks ELSE TimeoutTicks

VARIABLES
    \* RobotController
    state,          \* _state
    running,        \* _running
    stopEvent,      \* _stop_event: "none" (not created), "clear", "set"
    session,        \* _session: "none" or "set"
    silence,        \* polls of time.monotonic() - _last_activity, capped
    mainPc,         \* where the task running start() is
    cpu,            \* the task that is running: "none", "main", "recv"
    woke,           \* _run_idle: the result of _wait_for_event_or_stop
    raising,        \* the exception travelling up the stack of start(): "none", "cancel"
    \* _wait_for_event_or_stop
    wakeEvent,      \* wake_event.is_set()
    eventTask,      \* event_task: "none", "wait", "done"
    stopTask,       \* stop_task: "none", "wait", "done"
    \* GeminiSession
    connected,      \* _connected
    sessionCm,      \* _session_cm is not None
    exitCalls,      \* calls of the transport's __aexit__ on this session
    \* WakeWordDetector and the microphone
    listening,      \* _listening
    detTask,        \* _task: "none", "new", "run"
    detStale,       \* a cancelled detection loop that has not unwound yet
    micOpen,        \* audio_input.is_open()
    \* AudioCaptureStream
    streaming,      \* _streaming
    capTask,        \* _task: "none", "new", "run", "cancelled", "done"
    \* conversation tasks
    recvPc,         \* receive task: "none","new","wait","flush","tool","send",
                    \* "cancelled","done"
    tmPc,           \* timeout task: "none","new","sleep","cancelled","done"
    flushTask,      \* the drain task that flush() awaits, 0 if none
    \* AudioPlaybackStream and the speaker
    queue,          \* _queue: frames and Sentinel
    playing,        \* _playing
    pbTask,         \* _task: index of the drain task, 0 for None
    drains,         \* the drain tasks of this pipeline that are alive
    spkOpen,        \* audio_output.is_open()
    written,        \* frames written to the speaker in this conversation
    \* callers of stop() and of Task.cancel() on start()
    stopPc,         \* "idle" or "closing" (inside await session.close())
    nStops, nWakes, nMsgs,
    cancelUsed,     \* a CancelledError from outside has been raised in start()
    \* configuration of the run and budgets
    personality,    \* what the PersonalityManager has loaded: "configured" (the
                    \* configured default), "friendly" (only the fallback), "missing"
    convTimeout,    \* _conversation_timeout, in polls of the timeout monitor
    nFails,         \* consecutive connection attempts that ended in IDLE
    nCleanups,      \* runs of _cleanup() besides the one of start(), before
                    \* start() and after it
    \* history
    hist,           \* record of what happened, read by the properties only
    \* a component exercised on its own, outside a run of the controller
    unit            \* the ToolServer, the GeminiSession, the pipeline or the
                    \* monitor under its own callers; NoUnit in a run of start()

ctlVars  == <<state, running, stopEvent, session, silence, mainPc, cpu, woke,
              raising>>
waitVars == <<wakeEvent, eventTask, stopTask>>
sessVars == <<connected, sessionCm, exitCalls>>
detVars  == <<listening, detTask, detStale, micOpen>>
capVars  == <<streaming, capTask>>
convVars == <<recvPc, tmPc, flushTask>>
pbVars   == <<queue, playing, pbTask, drains, spkOpen, written>>
envVars  == <<stopPc, nStops, nWakes, nMsgs, cancelUsed>>
runVars  == <<personality, convTimeout, nFails, nCleanups, unit>>
vars == <<ctlVars, waitVars, sessVars, detVars, capVars, convVars, pbVars,
          envVars, runVars, hist>>

\* everything that belongs to the controller and its run
controllerVars == <<ctlVars, waitVars, sessVars, detVars, capVars, convVars,
                    pbVars, envVars, personality, convTimeout, nFails,
                    nCleanups, hist>>

\* no component is exercised on its own
NoUnit == [kind |-> "none"]

\* A drain task: st is "none" (no task, or the task is done), "new" (created,
\* not started), "p1" (phase 1, in queue.get), "p2" (phase 2, in a write),
\* "p3" (phase 3, in queue.get), "p3w" (phase 3, in a write), "cancelled"
\* (cancelled, not unwound yet); buf is what is left of `initial`.
NoDrain == [st |-> "none", buf |-> <<>>]

\* no tool_call is being handled
NoCall == [name |-> "none", id |-> 0]
DrainIds == 1..MaxDrain

HistInit == [
    persona     |-> "none",   \* what _run_connecting found: "configured",
                              \* "friendly" (the fallback) or "missing"
    connResult  |-> "none",   \* outcome of the last connect(): "none","ok","fail"
    lastMsg     |-> "none",   \* tag of the message the receive loop has just
                              \* handled; "none" once it has asked for the next
    call        |-> NoCall,   \* the tool_call being handled: tool name and call id
    responses   |-> <<>>,     \* tool responses sent while handling it: [id, result]
    terminal    |-> FALSE,    \* an error or go_away was dispatched in this conversation
    flushCancel |-> FALSE,    \* the receive task was cancelled inside that flush()
    nextFrame   |-> 1,        \* number of the next audio frame
    turnLo      |-> 1,        \* first frame of the turn in progress
    lastInt     |-> 0,        \* last frame enqueued before the latest interruption
    timedOut    |-> FALSE,    \* the timeout monitor returned by timeout
    convLeft    |-> FALSE,    \* _run_conversation has just been left
    idleLeft    |-> FALSE,    \* _run_idle has just returned
    escaped     |-> FALSE,    \* an exception of a handler has left start()
    afterFail   |-> FALSE     \* the last connection attempt ended in IDLE and no
                              \* wake word has been acted on since
]

ControllerInit ==
    /\ state = "IDLE" /\ running = FALSE /\ stopEvent = "none"
    /\ session = "none" /\ silence = 0
    /\ mainPc = "init" /\ cpu = "none" /\ woke = FALSE /\ raising = "none"
    /\ wakeEvent = FALSE /\ eventTask = "none" /\ stopTask = "none"
    /\ connected = FALSE /\ sessionCm = FALSE /\ exitCalls = 0
    /\ listening = FALSE /\ detTask = "none" /\ detStale = FALSE /\ micOpen = FALSE
    /\ streaming = FALSE /\ capTask = "none"
    /\ recvPc = "none" /\ tmPc = "none" /\ flushTask = 0
    /\ queue = <<>> /\ playing = FALSE /\ pbTask = 0
    /\ drains = [i \in DrainIds |-> NoDrain]
    /\ spkOpen = FALSE /\ written = <<>>
    /\ stopPc = "idle" /\ nStops = 0 /\ nWakes = 0 /\ nMsgs = 0
    /\ cancelUsed = FALSE
    /\ personality \in Personalities
    /\ convTimeout = TimeoutTicks
    /\ nFails = 0 /\ nCleanups = 0
    /\ hist = HistInit

Init == ControllerInit /\ unit = NoUnit

\* ---- scheduling ----

PendingUnwind ==
    \/ detStale
    \/ capTask = "cancelled"
    \/ recvPc = "cancelled"
    \/ tmPc = "cancelled"
    \/ \E i \in DrainIds : drains[i].st = "cancelled"

\* a task that was created and has not run its first step yet
PendingStart ==
    \/ detTask = "new"
    \/ capTask = "new"
    \/ recvPc = "new"
    \/ tmPc = "new"
    \/ \E i \in DrainIds : drains[i].st = "new"

\* the running task has suspended and the loop can run what Task.cancel()
\* and create_task() queued: unwindings first, then first steps
CanUnwind == cpu = "none"
CanBegin == cpu = "none" /\ ~PendingUnwind

\* nobody is running and the loop's ready queue is empty: the next thing to
\* run is the resumption of a task by an event (I/O, timer, another task)
Free == cpu = "none" /\ ~PendingUnwind /\ ~PendingStart

\* the task of start() goes on without having suspended, or is resumed
MainCan == cpu = "main" \/ Free

\* the receive task goes on without having suspended, or is resumed
RecvCan == cpu = "recv" \/ Free


\* ---- WakeWordDetector (src/src/wake_word/detector.py) ----

\* start(): a no-op while listening; otherwise opens the microphone if it is
\* not open, sets _listening and creates the detection task.
DetectorStart ==
    IF listening
    THEN UNCHANGED detVars
    ELSE /\ listening' = TRUE
         /\ detTask' = "new"
         /\ micOpen' = TRUE
         /\ UNCHANGED detStale

\* a faulty variant of DetectorStop: the stream is switched instead of closed,
\* so that a stop() on a closed microphone opens it
DetectorStopSwitch ==
    /\ listening' = FALSE
    /\ detStale' = (detStale \/ detTask = "run")
    /\ detTask' = "none"
    /\ micOpen' = ~micOpen

\* stop(): clears _listening, cancels the task without awaiting it, forgets
\* it, and closes the microphone if it is open.  A task cancelled before its
\* first step never enters its try block; a running one unwinds later.
DetectorStop ==
    /\ listening' = FALSE
    /\ detStale' = (detStale \/ detTask = "run")
    /\ detTask' = "none"
    /\ micOpen' = FALSE

\* first step of _detection_loop: up to the first read_chunk
DetLoopStart ==
    /\ detTask = "new" /\ CanBegin
    /\ detTask' = "run"
    /\ UNCHANGED <<runVars, ctlVars, waitVars, sessVars, listening, detStale, micOpen,
                   capVars, convVars, pbVars, envVars, hist>>

\* a scored frame reaches the threshold: on_detected() sets the wake event
DetFire ==
    /\ detTask = "run" /\ Free
    /\ listening /\ micOpen /\ ~wakeEvent
    /\ mainPc = "idle_wait"
    /\ nWakes < MaxWakes
    /\ wakeEvent' = TRUE
    /\ nWakes' = nWakes + 1
    /\ UNCHANGED <<runVars, ctlVars, eventTask, stopTask, sessVars, detVars, capVars,
                   convVars, pbVars, stopPc, nStops, nMsgs, cancelUsed, hist>>

\* the loop finds _listening false, or read_chunk raises on a closed
\* microphone: the loop ends and its finally clears _listening
DetLoopExit ==
    /\ detTask = "run" /\ Free
    /\ ~listening \/ ~micOpen
    /\ detTask' = "none"
    /\ listening' = FALSE
    /\ UNCHANGED <<runVars, ctlVars, waitVars, sessVars, detStale, micOpen, capVars,
                   convVars, pbVars, envVars, hist>>

\* the cancelled detection loop unwinds: its finally clears _listening
DetUnwind ==
    /\ detStale /\ CanUnwind
    /\ detStale' = FALSE
    /\ listening' = FALSE
    /\ UNCHANGED <<runVars, ctlVars, waitVars, sessVars, detTask, micOpen, capVars,
                   convVars, pbVars, envVars, hist>>

\* ---- GeminiSession.close (src/src/gemini/session.py) ----

\* close() up to the await of the transport's __aexit__
CloseBegin ==
    /\ exitCalls' = IF sessionCm THEN exitCalls + 1 ELSE exitCalls
    /\ UNCHANGED <<connected, sessionCm>>

\* close() after the await: the finally clears the handle and _connected
CloseEnd ==
    /\ connected' = FALSE
    /\ sessionCm' = FALSE
    /\ UNCHANGED exitCalls

\* ---- AudioPlaybackStream.stop (src/src/audio/playback.py) ----

\* Task.cancel() on a drain task
CancelDrain(d) ==
    CASE d.st = "new" -> NoDrain
      [] d.st \in {"p1", "p2", "p3", "p3w"} -> [st |-> "cancelled", buf |-> <<>>]
      [] OTHER -> d

\* stop(): not playing, queue emptied, drain task cancelled (not awaited) and
\* forgotten, speaker stopped if open
PlaybackStop ==
    /\ playing' = FALSE
    /\ queue' = <<>>
    /\ drains' = IF pbTask = 0 THEN drains
                 ELSE [drains EXCEPT ![pbTask] = CancelDrain(drains[pbTask])]
    /\ pbTask' = 0
    /\ spkOpen' = FALSE

\* ---- RobotController: main loop and state handlers ----

\* what the next handler forgets of the last one (history only)
Fresh(h) == [h EXCEPT !.persona = "none", !.connResult = "none",
                      !.convLeft = FALSE, !.idleLeft = FALSE]

\* start(), lines 82-85: a new stop event, _running set, state IDLE
Start ==
    /\ mainPc = "init" /\ Free
    /\ running' = TRUE
    /\ stopEvent' = "clear"
    /\ state' = "IDLE"
    /\ mainPc' = "loop"
    /\ cpu' = "main"
    /\ nCleanups' = 0 /\ nStops' = 0
    /\ UNCHANGED <<unit, personality, convTimeout, nFails, session, silence,
                   woke, raising, waitVars, sessVars, detVars, capVars, convVars,
                   pbVars, stopPc, nWakes, nMsgs, cancelUsed, hist>>

\* _run_idle up to the await of asyncio.wait in _wait_for_event_or_stop
RunIdle ==
    /\ mainPc = "loop" /\ cpu = "main" /\ raising = "none"
    /\ running /\ state = "IDLE"
    /\ DetectorStart
    /\ wakeEvent' = FALSE
    /\ eventTask' = "wait"
    /\ stopTask' = "wait"
    /\ mainPc' = "idle_wait"
    /\ cpu' = "none"
    /\ hist' = Fresh(hist)
    /\ UNCHANGED <<runVars, state, running, stopEvent, session, silence, woke, raising,
                   sessVars, capVars, convVars, pbVars, envVars>>

\* event_task: wake_event.wait() returns
EventTaskDone ==
    /\ eventTask = "wait" /\ wakeEvent /\ Free
    /\ eventTask' = "done"
    /\ UNCHANGED <<runVars, ctlVars, wakeEvent, stopTask, sessVars, detVars, capVars,
                   convVars, pbVars, envVars, hist>>

\* stop_task: _stop_event.wait() returns
StopTaskDone ==
    /\ stopTask = "wait" /\ stopEvent = "set" /\ Free
    /\ stopTask' = "done"
    /\ UNCHANGED <<runVars, ctlVars, wakeEvent, eventTask, sessVars, detVars, capVars,
                   convVars, pbVars, envVars, hist>>

\* asyncio.wait returns in _wait_for_event_or_stop: `done` is read, the
\* pending task is cancelled and awaited (no await when both are done)
IdleResolve ==
    /\ mainPc = "idle_wait" /\ Free
    /\ eventTask = "done" \/ stopTask = "done"
    /\ woke' = (eventTask = "done")
    /\ eventTask' = "none"
    /\ stopTask' = "none"
    /\ mainPc' = "idle_exit"
    /\ cpu' = IF eventTask = "done" /\ stopTask = "done" THEN "main" ELSE "none"
    /\ UNCHANGED <<runVars, state, running, stopEvent, session, silence, raising,
                   wakeEvent, sessVars, detVars, capVars, convVars, pbVars,
                   envVars, hist>>

\* a faulty variant of IdleNextState: _running is not looked at
IdleNextStateAnyway(w, r, s) == IF w THEN "CONNECTING" ELSE s

\* what _run_idle does with the result of the wait, lines 138-140
IdleNextState(w, r, s) == IF w /\ r THEN "CONNECTING" ELSE s

\* _wait_for_event_or_stop returns; _run_idle lines 136-140
IdleExit ==
    /\ mainPc = "idle_exit" /\ MainCan
    /\ DetectorStop
    /\ state' = IdleNextState(woke, running, state)
    /\ mainPc' = "loop"
    /\ cpu' = "main"
    /\ hist' = [hist EXCEPT !.idleLeft = TRUE, !.afterFail = FALSE]
    /\ UNCHANGED <<runVars, running, stopEvent, session, silence, woke, raising,
                   waitVars, sessVars, capVars, convVars, pbVars, envVars>>

\* a connection attempt has ended in IDLE: the wake word that started it is
\* given back to the budget of wake words, MaxFails times in a row
BackToIdle ==
    IF nFails < MaxFails
    THEN nWakes' = nWakes - 1 /\ nFails' = nFails + 1
    ELSE UNCHANGED <<nWakes, nFails>>

\* a faulty variant of NoPersonalityState: the state is left as it was
NoPersonalityStateKept == "CONNECTING"

\* the state that _run_connecting sets when no personality is loaded
\* (line 162)
NoPersonalityState == "IDLE"

\* _run_connecting, lines 149-163: neither the configured personality nor
\* "friendly" is loaded
ConnectingNoPersonality ==
    /\ mainPc = "loop" /\ cpu = "main" /\ raising = "none"
    /\ running /\ state = "CONNECTING"
    /\ personality = "missing"
    /\ state' = NoPersonalityState
    /\ BackToIdle
    /\ hist' = [Fresh(hist) EXCEPT !.persona = "missing", !.afterFail = TRUE]
    /\ UNCHANGED <<unit, personality, convTimeout, nCleanups, running, stopEvent,
                   session, silence, mainPc, cpu, woke, raising, waitVars,
                   sessVars, detVars, capVars, convVars, pbVars, stopPc,
                   nStops, nMsgs, cancelUsed>>

\* _run_connecting, lines 165-180: a new session is stored and connect() is
\* awaited; connect() stores the transport's context manager and awaits its
\* __aenter__ (session.py:129-133)
ConnectingBegin ==
    /\ mainPc = "loop" /\ cpu = "main" /\ raising = "none"
    /\ running /\ state = "CONNECTING"
    /\ personality # "missing"
    /\ session' = "set"
    /\ connected' = FALSE /\ sessionCm' = TRUE /\ exitCalls' = 0
    /\ convTimeout' = PersonalityTimeout(personality)
    /\ mainPc' = "connecting"
    /\ cpu' = "none"
    /\ hist' = [Fresh(hist) EXCEPT !.persona = personality]
    /\ UNCHANGED <<unit, personality, nFails, nCleanups, state, running, stopEvent,
                   silence, woke, raising, waitVars, detVars, capVars, convVars,
                   pbVars, envVars>>

\* a faulty variant of ConnectFailedSession: the handle is kept
ConnectFailedSessionKept == "set"

\* what _run_connecting leaves when connect() has returned / has raised
ConnectedState == "CONVERSATION"
ConnectFailedSession == "none"

\* connect() returns, lines 181-182
ConnectOk ==
    /\ mainPc = "connecting" /\ Free
    /\ connected' = TRUE
    /\ state' = ConnectedState
    /\ mainPc' = "loop"
    /\ cpu' = "main"
    /\ nFails' = 0
    /\ hist' = [hist EXCEPT !.connResult = "ok"]
    /\ UNCHANGED <<unit, personality, convTimeout, nCleanups, running, stopEvent,
                   session, silence, woke, raising, waitVars, sessionCm,
                   exitCalls, detVars, capVars, convVars, pbVars, envVars>>

\* connect() raises, lines 183-186
ConnectFail ==
    /\ mainPc = "connecting" /\ Free
    /\ session' = ConnectFailedSession
    /\ state' = "IDLE"
    /\ mainPc' = "loop"
    /\ cpu' = "main"
    /\ BackToIdle
    /\ hist' = [hist EXCEPT !.connResult = "fail", !.afterFail = TRUE]
    /\ UNCHANGED <<unit, personality, convTimeout, nCleanups, running, stopEvent,
                   silence, woke, raising, waitVars, sessVars, detVars, capVars,
                   convVars, pbVars, stopPc, nStops, nMsgs, cancelUsed>>

\* _run_connecting, lines 165-186, when connect() raises before it suspends
\* (session.py:96-132: the client or the connect configuration is refused):
\* the new session is stored and dropped again without the task of start()
\* having suspended
ConnectFailAtOnce ==
    /\ mainPc = "loop" /\ cpu = "main" /\ raising = "none"
    /\ running /\ state = "CONNECTING"
    /\ personality # "missing"
    /\ session' = ConnectFailedSession
    /\ connected' = FALSE /\ sessionCm' = FALSE /\ exitCalls' = 0
    /\ convTimeout' = PersonalityTimeout(personality)
    /\ state' = "IDLE"
    /\ BackToIdle
    /\ hist' = [Fresh(hist) EXCEPT !.persona = personality,
                                   !.connResult = "fail", !.afterFail = TRUE]
    /\ UNCHANGED <<unit, personality, nCleanups, running, stopEvent, silence, mainPc,
                   cpu, woke, raising, waitVars, detVars, capVars, convVars,
                   pbVars, stopPc, nStops, nMsgs, cancelUsed>>

\* ---- _run_conversation ----

\* history of one conversation, reset when it starts and when it is left
FreshConversation(h) ==
    [Fresh(h) EXCEPT !.lastMsg = "none", !.call = NoCall, !.responses = <<>>,
                     !.terminal = FALSE,
                     !.flushCancel = FALSE, !.nextFrame = 1, !.turnLo = 1,
                     !.lastInt = 0, !.timedOut = FALSE]

\* lines 190-213: a new capture pipeline is started (it opens the microphone
\* and creates its task), a new playback pipeline is made, the activity
\* timestamp is taken, the receive and timeout tasks are created and
\* asyncio.wait is awaited.  Drain tasks of an earlier pipeline are gone by
\* now: its stop() cancelled the one it knew.
RunConversation ==
    /\ mainPc = "loop" /\ cpu = "main" /\ raising = "none"
    /\ running /\ state = "CONVERSATION"
    /\ micOpen' = TRUE /\ streaming' = TRUE /\ capTask' = "new"
    /\ queue' = <<>> /\ playing' = FALSE /\ pbTask' = 0
    /\ drains' = [i \in DrainIds |-> NoDrain]
    /\ written' = <<>>
    /\ silence' = 0
    /\ recvPc' = "new" /\ tmPc' = "new" /\ flushTask' = 0
    /\ mainPc' = "conv_wait"
    /\ cpu' = "none"
    /\ hist' = FreshConversation(hist)
    /\ UNCHANGED <<runVars, state, running, stopEvent, session, woke, raising, waitVars,
                   sessVars, listening, detTask, detStale, spkOpen, envVars>>

RecvEnded == recvPc = "done"
TmEnded == tmPc = "done"

\* Task.cancel() on the receive task.  Inside flush() the task awaits the
\* drain task: the cancellation goes to the drain task, and the
\* CancelledError that comes back is caught by flush() (playback.py:67-70).
CancelRecv(pc) ==
    CASE pc = "new" -> "done"
      [] pc \in {"wait", "tool", "send"} -> "cancelled"
      [] OTHER -> pc

\* Task.cancel() on the timeout task
CancelTm(pc) ==
    CASE pc = "new" -> "done"
      [] pc = "sleep" -> "cancelled"
      [] OTHER -> pc

\* the drain tasks after Task.cancel() on the receive task
DrainsAfterCancelRecv ==
    IF recvPc = "flush"
    THEN [drains EXCEPT ![flushTask] = CancelDrain(drains[flushTask])]
    ELSE drains

\* lines 213-218: asyncio.wait returns when one of the two tasks is done;
\* the pending one is cancelled and awaited
ConvResolve ==
    /\ mainPc = "conv_wait" /\ Free
    /\ RecvEnded \/ TmEnded
    /\ recvPc' = CancelRecv(recvPc)
    /\ tmPc' = CancelTm(tmPc)
    /\ drains' = DrainsAfterCancelRecv
    /\ hist' = [hist EXCEPT !.flushCancel = (hist.flushCancel \/ recvPc = "flush")]
    /\ mainPc' = "conv_join"
    /\ UNCHANGED <<runVars, state, running, stopEvent, session, silence, cpu, woke,
                   raising, waitVars, sessVars, detVars, capVars, flushTask,
                   queue, playing, pbTask, spkOpen, written, envVars>>

\* the receive task unwinds after its cancellation (lines 245-246)
RecvUnwind ==
    /\ recvPc = "cancelled" /\ CanUnwind
    /\ recvPc' = "done"
    /\ UNCHANGED <<runVars, ctlVars, waitVars, sessVars, detVars, capVars, tmPc,
                   flushTask, pbVars, envVars, hist>>

\* the timeout task unwinds after its cancellation
TmUnwind ==
    /\ tmPc = "cancelled" /\ CanUnwind
    /\ tmPc' = "done"
    /\ UNCHANGED <<runVars, ctlVars, waitVars, sessVars, detVars, capVars, recvPc,
                   flushTask, pbVars, envVars, hist>>

\* AudioCaptureStream.stop() up to `await self._task` (capture.py:62-67)
CaptureStopBegin ==
    /\ streaming' = FALSE
    /\ capTask' = CASE capTask = "new" -> "done"
                    [] capTask = "run" -> "cancelled"
                    [] OTHER -> capTask

\* lines 219-224: the cancelled task has been awaited; the finally block
\* starts with capture.stop()
ConvJoin ==
    /\ mainPc = "conv_join" /\ Free
    /\ RecvEnded /\ TmEnded
    /\ CaptureStopBegin
    /\ mainPc' = "conv_capstop"
    /\ UNCHANGED <<runVars, state, running, stopEvent, session, silence, cpu, woke,
                   raising, waitVars, sessVars, detVars, convVars, pbVars,
                   envVars, hist>>

\* a faulty variant of TeardownState
TeardownStateWrong == "CONNECTING"

\* a faulty variant of TeardownSession: the handle is kept
TeardownSessionKept == "set"

\* the state and the session handle that the finally block leaves
TeardownState == "IDLE"
TeardownSession == "none"

\* _run_conversation is left: its playback pipeline is dropped with it
LeaveConversation ==
    /\ hist' = [FreshConversation(hist) EXCEPT !.convLeft = TRUE]
    /\ written' = <<>>

\* lines 224-229: capture.stop() returns (it closes the microphone),
\* playback.stop(), then session.close() if the session is connected
ConvTeardown ==
    /\ mainPc = "conv_capstop" /\ Free
    /\ capTask \in {"done", "none"}
    /\ micOpen' = FALSE
    /\ PlaybackStop
    /\ IF session = "set" /\ connected
       THEN /\ CloseBegin
            /\ mainPc' = "conv_close"
            /\ UNCHANGED <<state, session, cpu, hist, written>>
       ELSE /\ session' = TeardownSession
            /\ state' = TeardownState
            /\ mainPc' = "loop"
            /\ cpu' = "main"
            /\ LeaveConversation
            /\ UNCHANGED sessVars
    /\ UNCHANGED <<runVars, running, stopEvent, silence, woke, raising, waitVars,
                   listening, detTask, detStale, capVars, convVars, envVars>>

\* lines 227-229: session.close() returns
ConvCloseDone ==
    /\ mainPc = "conv_close" /\ Free
    /\ CloseEnd
    /\ session' = TeardownSession
    /\ state' = TeardownState
    /\ mainPc' = "loop"
    /\ cpu' = "main"
    /\ LeaveConversation
    /\ UNCHANGED <<runVars, running, stopEvent, silence, woke, raising, waitVars,
                   detVars, capVars, convVars, queue, playing, pbTask, drains,
                   spkOpen, envVars>>

\* ---- leaving the main loop: start() lines 97-102 and _cleanup ----

\* _cleanup (lines 334-345) up to session.close(), or to its end when no
\* session is connected: the monitor is stopped, which closes the microphone,
\* and the speaker is stopped; pc is where the caller is when it is over
CleanupBegin(pc) ==
    /\ DetectorStop
    /\ IF session = "set" /\ connected
       THEN /\ CloseBegin
            /\ mainPc' = "cleanup_close"
            /\ UNCHANGED spkOpen
       ELSE /\ spkOpen' = FALSE
            /\ mainPc' = pc
            /\ UNCHANGED sessVars

\* the loop condition fails, or an exception arrives from a handler: state
\* SHUTTING_DOWN, then _cleanup up to session.close().  A CancelledError is
\* caught by start() (lines 97-98); any other exception leaves start() when
\* the finally block is over.
Exit ==
    /\ mainPc = "loop" /\ cpu = "main"
    /\ ~running \/ raising # "none"
    /\ state' = "SHUTTING_DOWN"
    /\ raising' = "none"
    /\ CleanupBegin("done")
    /\ cpu' = "none"
    /\ hist' = [Fresh(hist) EXCEPT !.escaped = (raising = "error")]
    /\ UNCHANGED <<runVars, running, stopEvent, session, silence, woke, waitVars,
                   capVars, convVars, queue, playing, pbTask, drains, written,
                   envVars>>

\* _cleanup lines 338-345: session.close() returns, the microphone and the
\* speaker are closed
CleanupCloseDone ==
    /\ mainPc = "cleanup_close" /\ Free
    /\ CloseEnd
    /\ micOpen' = FALSE
    /\ spkOpen' = FALSE
    /\ mainPc' = "done"
    /\ UNCHANGED <<runVars, state, running, stopEvent, session, silence, cpu, woke,
                   raising, waitVars, listening, detTask, detStale, capVars,
                   convVars, queue, playing, pbTask, drains, written, envVars,
                   hist>>

\* _cleanup() is run once more by the owner of the controller, before
\* start() or after start() has returned
CleanupAgain ==
    /\ mainPc \in {"init", "done"} /\ Free
    /\ nCleanups < MaxCleanups
    /\ nCleanups' = nCleanups + 1
    /\ CleanupBegin(mainPc)
    /\ UNCHANGED <<unit, personality, convTimeout, nFails, state, running, stopEvent,
                   session, silence, cpu, woke, raising, waitVars, capVars,
                   convVars, queue, playing, pbTask, drains, written, envVars,
                   hist>>

\* ---- failures of the hardware and of the transport inside a handler ----

\* _run_idle: WakeWordDetector.start raises (the classifier cannot be loaded
\* or the microphone cannot be opened, detector.py:65-70); nothing catches
\* it before start()
RunIdleFails ==
    /\ mainPc = "loop" /\ cpu = "main" /\ raising = "none"
    /\ running /\ state = "IDLE"
    /\ ~listening
    /\ raising' = "error"
    /\ hist' = Fresh(hist)
    /\ UNCHANGED <<runVars, state, running, stopEvent, session, silence, mainPc,
                   cpu, woke, waitVars, sessVars, detVars, capVars, convVars,
                   pbVars, envVars>>

\* _run_conversation: capture.start() raises (the microphone cannot be
\* opened, capture.py:47-51); line 206 is outside the try block, so the
\* finally block does not run
RunConversationFails ==
    /\ mainPc = "loop" /\ cpu = "main" /\ raising = "none"
    /\ running /\ state = "CONVERSATION"
    /\ ~micOpen
    /\ raising' = "error"
    /\ hist' = [FreshConversation(hist) EXCEPT !.convLeft = TRUE]
    /\ UNCHANGED <<runVars, state, running, stopEvent, session, silence, mainPc,
                   cpu, woke, waitVars, sessVars, detVars, capVars, convVars,
                   pbVars, envVars>>

\* ---- AudioCaptureStream._capture_loop (src/src/audio/capture.py) ----

\* first step of the loop, up to the first read_chunk
CapLoopStart ==
    /\ capTask = "new" /\ CanBegin
    /\ capTask' = "run"
    /\ UNCHANGED <<runVars, ctlVars, waitVars, sessVars, detVars, streaming, convVars,
                   pbVars, envVars, hist>>

\* read_chunk raises on a closed microphone: the loop logs the error, clears
\* _streaming and ends (lines 93-95)
CapLoopError ==
    /\ capTask = "run" /\ Free
    /\ ~micOpen
    /\ streaming' = FALSE
    /\ capTask' = "done"
    /\ UNCHANGED <<runVars, ctlVars, waitVars, sessVars, detVars, convVars, pbVars,
                   envVars, hist>>

\* the cancelled capture task unwinds (lines 91-92)
CapUnwind ==
    /\ capTask = "cancelled" /\ CanUnwind
    /\ capTask' = "done"
    /\ UNCHANGED <<runVars, ctlVars, waitVars, sessVars, detVars, streaming, convVars,
                   pbVars, envVars, hist>>

\* ---- _timeout_monitor (controller.py:290-299) ----

\* the loop condition of the monitor
TmGoesOn == running /\ state = "CONVERSATION"

\* first step: the loop condition, then asyncio.sleep(1.0)
TmStart ==
    /\ tmPc = "new" /\ CanBegin
    /\ tmPc' = IF TmGoesOn THEN "sleep" ELSE "done"
    /\ UNCHANGED <<runVars, ctlVars, waitVars, sessVars, detVars, capVars, recvPc,
                   flushTask, pbVars, envVars, hist>>

\* elapsed >= _conversation_timeout, in polls
TimedOut(s) == s >= convTimeout

\* the sleep returns: one more poll of silence has passed; return on timeout,
\* else test the loop condition and sleep again
TmTick ==
    /\ tmPc = "sleep" /\ Free
    /\ LET s == IF silence < convTimeout THEN silence + 1 ELSE silence
       IN /\ silence' = s
          /\ tmPc' = IF TimedOut(s) \/ ~TmGoesOn THEN "done" ELSE "sleep"
          /\ hist' = [hist EXCEPT !.timedOut = (hist.timedOut \/ TimedOut(s))]
    /\ UNCHANGED <<runVars, state, running, stopEvent, session, mainPc, cpu, woke,
                   raising, waitVars, sessVars, detVars, capVars, recvPc,
                   flushTask, pbVars, envVars>>

\* ---- stop() (controller.py:104-111) ----

\* what stop() leaves in _running
StopRunning == FALSE

\* stop() up to `await self._session.close()`
StopCall ==
    /\ stopPc = "idle" /\ Free
    /\ nStops < MaxStops
    /\ running' = StopRunning
    /\ stopEvent' = IF stopEvent = "none" THEN "none" ELSE "set"
    /\ DetectorStop
    /\ IF session = "set" /\ connected
       THEN CloseBegin /\ stopPc' = "closing"
       ELSE UNCHANGED <<sessVars, stopPc>>
    /\ nStops' = nStops + 1
    /\ UNCHANGED <<runVars, state, session, silence, mainPc, cpu, woke, raising,
                   waitVars, capVars, convVars, pbVars, nWakes, nMsgs,
                   cancelUsed, hist>>

\* session.close() returns inside stop()
StopCloseDone ==
    /\ stopPc = "closing" /\ Free
    /\ CloseEnd
    /\ stopPc' = "idle"
    /\ UNCHANGED <<runVars, ctlVars, waitVars, detVars, capVars, convVars, pbVars,
                   nStops, nWakes, nMsgs, cancelUsed, hist>>

\* ---- AudioPlaybackStream.play_chunk / flush (src/src/audio/playback.py) ----

FreeDrains == {i \in DrainIds : drains[i].st = "none"}
NewDrain == CHOOSE i \in FreeDrains : \A j \in FreeDrains : i <= j

\* play_chunk can run within the bound on drain tasks
CanPlayChunk == playing \/ FreeDrains # {}

\* play_chunk(f): when not playing, open the speaker if it is not open, set
\* _playing and create the drain task; then put the frame on the queue
PlayChunk(f) ==
    /\ IF playing
       THEN UNCHANGED <<playing, pbTask, drains, spkOpen>>
       ELSE /\ spkOpen' = TRUE
            /\ playing' = TRUE
            /\ pbTask' = NewDrain
            /\ drains' = [drains EXCEPT ![NewDrain] = [st |-> "new", buf |-> <<>>]]
    /\ queue' = Append(queue, f)
    /\ UNCHANGED written

\* flush() has a drain task to wait for (line 65)
FlushWaits == pbTask # 0 /\ drains[pbTask].st # "none"

\* a faulty variant of FlushReturns: flush() does not wait for the drain task
FlushReturnsAtOnce(d) == TRUE

\* the await of flush() is over: the drain task ended, by itself or cancelled
FlushReturns(d) == d.st = "none"

\* ---- _receive_loop and _handle_message (controller.py:236-288) ----

\* the receive loop asks for the next message: the one it handled is history
Asked(h) == [h EXCEPT !.lastMsg = "none", !.call = NoCall, !.responses = <<>>]

\* first step of the receive task: session.receive() raises when the session
\* is not connected, which ends the task
RecvStart ==
    /\ recvPc = "new" /\ CanBegin
    /\ IF session = "set" /\ connected
       THEN recvPc' = "wait" /\ cpu' = "recv"
       ELSE recvPc' = "done" /\ cpu' = "none"
    /\ UNCHANGED <<runVars, state, running, stopEvent, session, silence, mainPc, woke,
                   raising, waitVars, sessVars, detVars, capVars, tmPc,
                   flushTask, pbVars, envVars, hist>>

\* no message is buffered: the receive task suspends in the transport
RecvYield ==
    /\ recvPc = "wait" /\ cpu = "recv"
    /\ cpu' = "none"
    /\ hist' = Asked(hist)
    /\ UNCHANGED <<runVars, state, running, stopEvent, session, silence, mainPc, woke,
                   raising, waitVars, sessVars, detVars, capVars, convVars,
                   pbVars, envVars>>

\* the message stream ends while the session is connected
RecvStreamEnd ==
    /\ recvPc = "wait" /\ RecvCan
    /\ connected
    /\ recvPc' = "done" /\ cpu' = "none"
    /\ hist' = Asked(hist)
    /\ UNCHANGED <<runVars, state, running, stopEvent, session, silence, mainPc, woke,
                   raising, waitVars, sessVars, detVars, capVars, tmPc,
                   flushTask, pbVars, envVars>>

\* the session has been closed: the transport ends the stream
RecvClosed ==
    /\ recvPc = "wait" /\ RecvCan
    /\ ~connected
    /\ recvPc' = "done" /\ cpu' = "none"
    /\ hist' = Asked(hist)
    /\ UNCHANGED <<runVars, state, running, stopEvent, session, silence, mainPc, woke,
                   raising, waitVars, sessVars, detVars, capVars, tmPc,
                   flushTask, pbVars, envVars>>

\* a message arrives after stop(): `if not self._running: break` (line 240)
RecvNotRunning ==
    /\ recvPc = "wait" /\ RecvCan
    /\ connected /\ ~running
    /\ recvPc' = "done" /\ cpu' = "none"
    /\ hist' = Asked(hist)
    /\ UNCHANGED <<runVars, state, running, stopEvent, session, silence, mainPc, woke,
                   raising, waitVars, sessVars, detVars, capVars, tmPc,
                   flushTask, pbVars, envVars>>

\* a message can be dispatched
RecvReady ==
    /\ recvPc = "wait" /\ RecvCan
    /\ connected /\ running
    /\ nMsgs < MaxMsgs

\* the tags that end the receive loop after they were handled (line 243)
TerminalTags == {"error", "go_away"}

\* a faulty variant of RefreshTags: a transcription refreshes as well
RefreshTagsWide == {"input_transcription", "turn_complete", "interrupted",
                    "transcription"}

\* the tags that refresh _last_activity at once (lines 259-270)
RefreshTags == {"input_transcription", "turn_complete", "interrupted"}

\* bookkeeping common to every dispatched message
Dispatched(m, h) ==
    [h EXCEPT !.lastMsg = m, !.call = NoCall, !.responses = <<>>,
              !.terminal = (h.terminal \/ m \in TerminalTags)]

\* a faulty variant of AfterMessage: the loop goes on after error and go_away
AfterMessageNoBreak(m) == "wait"

\* where the receive loop is after _handle_message(m) has returned
\* (lines 243-244)
AfterMessage(m) == IF m \in TerminalTags THEN "done" ELSE "wait"

\* messages that change nothing but the activity timestamp, and the two
\* terminal ones: setup_complete, transcription, input_transcription,
\* tool_call_cancellation, go_away, error
RecvPlain(m) ==
    /\ RecvReady
    /\ m \in {"setup_complete", "transcription", "input_transcription",
              "tool_call_cancellation", "go_away", "error"}
    /\ silence' = IF m \in RefreshTags THEN 0 ELSE silence
    /\ recvPc' = AfterMessage(m)
    /\ cpu' = IF recvPc' = "done" THEN "none" ELSE "recv"
    /\ nMsgs' = nMsgs + 1
    /\ hist' = Dispatched(m, hist)
    /\ UNCHANGED <<runVars, state, running, stopEvent, session, mainPc, woke, raising,
                   waitVars, sessVars, detVars, capVars, tmPc, flushTask,
                   pbVars, stopPc, nStops, nWakes, cancelUsed>>

\* audio: play_chunk (lines 252-253)
RecvAudio ==
    /\ RecvReady
    /\ CanPlayChunk
    /\ PlayChunk(hist.nextFrame)
    /\ cpu' = "recv"
    /\ nMsgs' = nMsgs + 1
    /\ hist' = [Dispatched("audio", hist) EXCEPT !.nextFrame = hist.nextFrame + 1]
    /\ UNCHANGED <<runVars, state, running, stopEvent, session, silence, mainPc, woke,
                   raising, waitVars, sessVars, detVars, capVars, convVars,
                   stopPc, nStops, nWakes, cancelUsed>>

\* turn_complete: refresh, then flush() (lines 264-266): with a drain task
\* running, the sentinel is queued and the task is awaited
RecvTurnComplete ==
    /\ RecvReady
    /\ silence' = 0
    /\ IF FlushWaits
       THEN /\ queue' = Append(queue, Sentinel)
            /\ flushTask' = pbTask
            /\ recvPc' = "flush" /\ cpu' = "none"
       ELSE /\ flushTask' = 0
            /\ recvPc' = "wait" /\ cpu' = "recv"
            /\ UNCHANGED queue
    /\ nMsgs' = nMsgs + 1
    /\ hist' = [Dispatched("turn_complete", hist) EXCEPT
                   !.flushCancel = FALSE,
                   !.turnLo = IF FlushWaits THEN hist.turnLo ELSE hist.nextFrame]
    /\ UNCHANGED <<runVars, state, running, stopEvent, session, mainPc, woke, raising,
                   waitVars, sessVars, detVars, capVars, tmPc, playing, pbTask,
                   drains, spkOpen, written, stopPc, nStops, nWakes,
                   cancelUsed>>

\* flush() returns: the awaited drain task is done; a CancelledError raised
\* by the await is swallowed (playback.py:67-70), so the loop goes on
RecvFlushDone ==
    /\ recvPc = "flush" /\ Free
    /\ FlushReturns(drains[flushTask])
    /\ recvPc' = "wait" /\ cpu' = "recv"
    /\ flushTask' = 0
    /\ hist' = [hist EXCEPT !.turnLo = hist.nextFrame]
    /\ UNCHANGED <<runVars, state, running, stopEvent, session, silence, mainPc, woke,
                   raising, waitVars, sessVars, detVars, capVars, tmPc, pbVars,
                   envVars>>

\* interrupted: playback.stop(), then refresh (lines 268-270)
RecvInterrupted ==
    /\ RecvReady
    /\ PlaybackStop
    /\ UNCHANGED written
    /\ silence' = 0
    /\ cpu' = "recv"
    /\ nMsgs' = nMsgs + 1
    /\ hist' = [Dispatched("interrupted", hist) EXCEPT
                   !.lastInt = hist.nextFrame - 1,
                   !.turnLo = hist.nextFrame]
    /\ UNCHANGED <<runVars, state, running, stopEvent, session, mainPc, woke, raising,
                   waitVars, sessVars, detVars, capVars, convVars, stopPc,
                   nStops, nWakes, cancelUsed>>

\* the names a tool_call can carry, and the ones ToolServer has a tool for
ToolNames == {"registered_tool", "nonexistent_tool"}
RegisteredTools == {"registered_tool"}

\* ToolServer.execute_tool (src/src/tools/server.py:171-194): the result for
\* a name that is not registered, and for a registered tool
ToolResult(name) ==
    IF name \notin RegisteredTools
    THEN [key |-> "error", text |-> <<"Unknown tool: ", name>>]
    ELSE [key |-> "result", text |-> <<name>>]

\* a faulty variant of ResponseId: every response carries the same id
ResponseIdFixed(id) == 0

\* a faulty variant of ResponseId: the response answers the message before
ResponseIdEarlier(id) == id - 1

\* the id that a response carries, given the id of the call
\* (controller.py:279, session.py:193-199)
ResponseId(id) == id

\* lines 277-279, after execute_tool has returned for the call h.call:
\* refresh, then the response is handed to the transport if the session is
\* still connected
ToolRespond(h) ==
    /\ silence' = 0
    /\ IF session = "set" /\ connected
       THEN /\ recvPc' = "send" /\ cpu' = "none"
            /\ hist' = [h EXCEPT !.responses =
                            Append(h.responses,
                                   [id |-> ResponseId(h.call.id),
                                    result |-> ToolResult(h.call.name)])]
       ELSE /\ recvPc' = "wait" /\ cpu' = "recv"
            /\ hist' = h

\* tool_call for a name that is not registered (lines 272-279): execute_tool
\* returns the error result without suspending (server.py:181-183)
RecvToolCallUnknown ==
    /\ RecvReady
    /\ \E name \in ToolNames \ RegisteredTools :
           ToolRespond([Dispatched("tool_call", hist) EXCEPT
                           !.call = [name |-> name, id |-> nMsgs + 1]])
    /\ nMsgs' = nMsgs + 1
    /\ UNCHANGED <<unit, personality, convTimeout, nFails, nCleanups, state, running,
                   stopEvent, session, mainPc, woke, raising, waitVars,
                   sessVars, detVars, capVars, tmPc, flushTask, pbVars, stopPc,
                   nStops, nWakes, cancelUsed>>

\* tool_call for a registered tool: execute_tool awaits the handler
\* (lines 272-276, server.py:185-188)
RecvToolCall ==
    /\ RecvReady
    /\ recvPc' = "tool" /\ cpu' = "none"
    /\ nMsgs' = nMsgs + 1
    /\ \E name \in RegisteredTools :
           hist' = [Dispatched("tool_call", hist) EXCEPT
                       !.call = [name |-> name, id |-> nMsgs + 1]]
    /\ UNCHANGED <<unit, personality, convTimeout, nFails, nCleanups, state, running,
                   stopEvent, session, silence, mainPc, woke, raising, waitVars,
                   sessVars, detVars, capVars, tmPc, flushTask, pbVars, stopPc,
                   nStops, nWakes, cancelUsed>>

\* the tool returns: refresh, then the response is sent if the session is
\* still connected (lines 277-279)
RecvToolDone ==
    /\ recvPc = "tool" /\ Free
    /\ ToolRespond(hist)
    /\ UNCHANGED <<runVars, state, running, stopEvent, session, mainPc, woke, raising,
                   waitVars, sessVars, detVars, capVars, tmPc, flushTask,
                   pbVars, envVars>>

\* the transport has taken the tool response: _handle_message returns
RecvSendDone ==
    /\ recvPc = "send" /\ Free
    /\ recvPc' = "wait" /\ cpu' = "recv"
    /\ UNCHANGED <<runVars, state, running, stopEvent, session, silence, mainPc,
                   woke, raising, waitVars, sessVars, detVars, capVars, tmPc,
                   flushTask, pbVars, envVars, hist>>

\* the transport refuses the tool response: the exception ends the receive
\* task, where it stays (nobody reads the task's result)
RecvSendFails ==
    /\ recvPc = "send" /\ Free
    /\ recvPc' = "done" /\ cpu' = "none"
    /\ UNCHANGED <<runVars, state, running, stopEvent, session, silence, mainPc,
                   woke, raising, waitVars, sessVars, detVars, capVars, tmPc,
                   flushTask, pbVars, envVars, hist>>

\* an audio message whose play_chunk raises: the speaker cannot be opened
\* (playback.py:56-57); the exception ends the receive task
RecvHandlerFails ==
    /\ RecvReady
    /\ ~playing /\ ~spkOpen
    /\ recvPc' = "done" /\ cpu' = "none"
    /\ nMsgs' = nMsgs + 1
    /\ hist' = Dispatched("audio", hist)
    /\ UNCHANGED <<runVars, state, running, stopEvent, session, silence, mainPc,
                   woke, raising, waitVars, sessVars, detVars, capVars, tmPc,
                   flushTask, pbVars, stopPc, nStops, nWakes, cancelUsed>>

\* ---- AudioPlaybackStream._drain_loop (playback.py:122-171) ----

\* the drain task i leaves the loop: `finally: self._playing = False`
DrainFinally(i) ==
    /\ drains' = [drains EXCEPT ![i] = NoDrain]
    /\ playing' = FALSE
    /\ UNCHANGED written

\* write_chunk(f) is handed to the executor by drain task i, which then
\* awaits it in status st with b left to play; a closed speaker makes the
\* call raise, which ends the loop (lines 168-171)
DrainWrite(i, f, st, b) ==
    IF spkOpen
    THEN /\ written' = Append(written, f)
         /\ drains' = [drains EXCEPT ![i] = [st |-> st, buf |-> b]]
         /\ UNCHANGED playing
    ELSE DrainFinally(i)

\* phase 3 is entered or re-entered: `while self._playing` and queue.get
DrainPhase3(i) ==
    IF playing
    THEN /\ drains' = [drains EXCEPT ![i] = [st |-> "p3", buf |-> <<>>]]
         /\ UNCHANGED <<playing, written>>
    ELSE DrainFinally(i)

\* phase 2 with b left to play: `if not self._playing: return`, else write
DrainPhase2(i, b) ==
    IF b = <<>> THEN DrainPhase3(i)
    ELSE IF ~playing THEN DrainFinally(i)
    ELSE DrainWrite(i, Head(b), "p2", Tail(b))

\* a faulty variant of DrainPhase1: playing starts with the first chunk
DrainPhase1Eager(i, b) == DrainPhase2(i, b)

\* phase 1 goes on after a chunk was appended to `initial`
DrainPhase1(i, b) ==
    IF Len(b) < BufferChunks
    THEN /\ drains' = [drains EXCEPT ![i] = [st |-> "p1", buf |-> b]]
         /\ UNCHANGED <<playing, written>>
    ELSE DrainPhase2(i, b)

\* first step of the task: up to the first queue.get
DrainStart(i) ==
    /\ drains[i].st = "new" /\ CanBegin
    /\ drains' = [drains EXCEPT ![i] = [st |-> "p1", buf |-> <<>>]]
    /\ UNCHANGED <<runVars, ctlVars, waitVars, sessVars, detVars, capVars, convVars,
                   queue, playing, pbTask, spkOpen, written, envVars, hist>>

\* phase 1: queue.get returns a chunk or the sentinel
DrainGet1(i) ==
    /\ drains[i].st = "p1" /\ Free
    /\ queue # <<>>
    /\ queue' = Tail(queue)
    /\ IF Head(queue) = Sentinel
       THEN DrainPhase2(i, drains[i].buf)
       ELSE DrainPhase1(i, Append(drains[i].buf, Head(queue)))
    /\ UNCHANGED <<runVars, ctlVars, waitVars, sessVars, detVars, capVars, convVars,
                   pbTask, spkOpen, envVars, hist>>

\* phase 1: no chunk for 1.0 s
DrainTimeout1(i) ==
    /\ drains[i].st = "p1" /\ Free
    /\ queue = <<>>
    /\ DrainPhase2(i, drains[i].buf)
    /\ UNCHANGED <<runVars, ctlVars, waitVars, sessVars, detVars, capVars, convVars,
                   queue, pbTask, spkOpen, envVars, hist>>

\* phase 2: a write has returned
DrainWrite2(i) ==
    /\ drains[i].st = "p2" /\ Free
    /\ DrainPhase2(i, drains[i].buf)
    /\ UNCHANGED <<runVars, ctlVars, waitVars, sessVars, detVars, capVars, convVars,
                   queue, pbTask, spkOpen, envVars, hist>>

\* phase 3: queue.get returns a chunk or the sentinel (lines 159-165)
DrainGet3(i) ==
    /\ drains[i].st = "p3" /\ Free
    /\ queue # <<>>
    /\ queue' = Tail(queue)
    /\ IF Head(queue) = Sentinel \/ ~playing
       THEN DrainFinally(i)
       ELSE DrainWrite(i, Head(queue), "p3w", <<>>)
    /\ UNCHANGED <<runVars, ctlVars, waitVars, sessVars, detVars, capVars, convVars,
                   pbTask, spkOpen, envVars, hist>>

\* phase 3: a write has returned
DrainWrite3(i) ==
    /\ drains[i].st = "p3w" /\ Free
    /\ DrainPhase3(i)
    /\ UNCHANGED <<runVars, ctlVars, waitVars, sessVars, detVars, capVars, convVars,
                   queue, pbTask, spkOpen, envVars, hist>>

\* phase 3: no chunk for 2.0 s
DrainTimeout3(i) ==
    /\ drains[i].st = "p3" /\ Free
    /\ queue = <<>>
    /\ DrainFinally(i)
    /\ UNCHANGED <<runVars, ctlVars, waitVars, sessVars, detVars, capVars, convVars,
                   queue, pbTask, spkOpen, envVars, hist>>

\* the cancelled drain task unwinds: `except CancelledError: raise`, finally
DrainUnwind(i) ==
    /\ drains[i].st = "cancelled" /\ CanUnwind
    /\ DrainFinally(i)
    /\ UNCHANGED <<runVars, ctlVars, waitVars, sessVars, detVars, capVars, convVars,
                   queue, pbTask, spkOpen, envVars, hist>>

\* ---- Task.cancel() on the task that runs start() ----
\* The CancelledError is raised at the await where start() is suspended.  The
\* call and the resumption of start() are taken as one step.  One request is
\* delivered in a run; a request that is swallowed leaves no trace.

CancelGuard == ~cancelUsed /\ Free

\* at asyncio.wait in _wait_for_event_or_stop: `pending` is still empty in the
\* finally, the two waiter tasks are left behind, detector.stop() in
\* _run_idle is skipped
CancelAtIdleWait ==
    /\ CancelGuard /\ mainPc = "idle_wait"
    /\ cancelUsed' = TRUE
    /\ raising' = "cancel"
    /\ eventTask' = "none" /\ stopTask' = "none"
    /\ mainPc' = "loop" /\ cpu' = "main"
    /\ UNCHANGED <<runVars, state, running, stopEvent, session, silence, woke, wakeEvent,
                   sessVars, detVars, capVars, convVars, pbVars, stopPc, nStops,
                   nWakes, nMsgs, hist>>

\* at an `await task` of a task that was just cancelled, inside
\* `except CancelledError: pass` (controller.py:327-330, capture.py:64-67):
\* the request goes to the awaited task and what comes back is swallowed
CancelSwallowed ==
    /\ CancelGuard /\ mainPc \in {"idle_exit", "conv_capstop"}
    /\ UNCHANGED vars

\* at session.connect(): the error passes `except Exception` (line 183)
CancelAtConnecting ==
    /\ CancelGuard /\ mainPc = "connecting"
    /\ cancelUsed' = TRUE
    /\ raising' = "cancel"
    /\ mainPc' = "loop" /\ cpu' = "main"
    /\ UNCHANGED <<runVars, state, running, stopEvent, session, silence, woke, waitVars,
                   sessVars, detVars, capVars, convVars, pbVars, stopPc, nStops,
                   nWakes, nMsgs, hist>>

\* at asyncio.wait in _run_conversation (line 213): the loop over `pending`
\* is skipped, the receive and timeout tasks are left running, and the
\* finally block starts with capture.stop()
CancelAtConvWait ==
    /\ CancelGuard /\ mainPc = "conv_wait"
    /\ cancelUsed' = TRUE
    /\ raising' = "cancel"
    /\ CaptureStopBegin
    /\ mainPc' = "conv_capstop"
    /\ UNCHANGED <<runVars, state, running, stopEvent, session, silence, cpu, woke,
                   waitVars, sessVars, detVars, convVars, pbVars, stopPc,
                   nStops, nWakes, nMsgs, hist>>

\* at `await task` in _run_conversation (lines 219-222): the request goes to
\* the awaited task once more, and what comes back is swallowed
CancelAtConvJoin ==
    /\ CancelGuard /\ mainPc = "conv_join"
    /\ recvPc' = CancelRecv(recvPc)
    /\ tmPc' = CancelTm(tmPc)
    /\ drains' = DrainsAfterCancelRecv
    /\ UNCHANGED <<runVars, ctlVars, waitVars, sessVars, detVars, capVars, flushTask,
                   queue, playing, pbTask, spkOpen, written, envVars, hist>>

\* at session.close() in the finally of _run_conversation (line 227):
\* close() clears the session's own fields in its finally, and lines 228-229
\* are skipped
CancelAtConvClose ==
    /\ CancelGuard /\ mainPc = "conv_close"
    /\ cancelUsed' = TRUE
    /\ raising' = "cancel"
    /\ CloseEnd
    /\ mainPc' = "loop" /\ cpu' = "main"
    /\ LeaveConversation
    /\ UNCHANGED <<runVars, state, running, stopEvent, session, silence, woke, waitVars,
                   detVars, capVars, convVars, queue, playing, pbTask, drains,
                   spkOpen, stopPc, nStops, nWakes, nMsgs>>

\* at session.close() in _cleanup (line 338): the rest of _cleanup is skipped
CancelAtCleanupClose ==
    /\ CancelGuard /\ mainPc = "cleanup_close"
    /\ cancelUsed' = TRUE
    /\ CloseEnd
    /\ mainPc' = "done"
    /\ UNCHANGED <<runVars, state, running, stopEvent, session, silence, cpu, woke,
                   raising, waitVars, detVars, capVars, convVars, pbVars,
                   stopPc, nStops, nWakes, nMsgs, hist>>

\* ---- the system ----

Next ==
    \/ Start
    \/ RunIdle
    \/ DetLoopStart
    \/ DetFire
    \/ DetLoopExit
    \/ DetUnwind
    \/ EventTaskDone
    \/ StopTaskDone
    \/ IdleResolve
    \/ IdleExit
    \/ ConnectingNoPersonality
    \/ ConnectingBegin
    \/ ConnectFailAtOnce
    \/ ConnectOk
    \/ ConnectFail
    \/ RunConversation
    \/ CapLoopStart
    \/ CapLoopError
    \/ CapUnwind
    \/ TmStart
    \/ TmTick
    \/ TmUnwind
    \/ RecvStart
    \/ RecvYield
    \/ RecvStreamEnd
    \/ RecvClosed
    \/ RecvNotRunning
    \/ \E m \in MsgTypes : RecvPlain(m)
    \/ RecvAudio
    \/ RecvTurnComplete
    \/ RecvFlushDone
    \/ RecvInterrupted
    \/ RecvToolCallUnknown
    \/ RecvToolCall
    \/ RecvToolDone
    \/ RecvSendDone
    \/ RecvUnwind
    \/ \E i \in DrainIds : DrainStart(i)
    \/ \E i \in DrainIds : DrainGet1(i)
    \/ \E i \in DrainIds : DrainTimeout1(i)
    \/ \E i \in DrainIds : DrainWrite2(i)
    \/ \E i \in DrainIds : DrainGet3(i)
    \/ \E i \in DrainIds : DrainWrite3(i)
    \/ \E i \in DrainIds : DrainTimeout3(i)
    \/ \E i \in DrainIds : DrainUnwind(i)
    \/ ConvResolve
    \/ ConvJoin
    \/ ConvTeardown
    \/ ConvCloseDone
    \/ Exit
    \/ CleanupCloseDone
    \/ StopCall
    \/ StopCloseDone
    \/ RunIdleFails
    \/ RunConversationFails
    \/ RecvSendFails
    \/ RecvHandlerFails
    \/ CleanupAgain

Spec == Init /\ [][Next]_vars

\* Spec with Task.cancel() on the task that runs start()
ExternalCancel ==
    \/ CancelAtIdleWait
    \/ CancelSwallowed
    \/ CancelAtConnecting
    \/ CancelAtConvWait
    \/ CancelAtConvJoin
    \/ CancelAtConvClose
    \/ CancelAtCleanupClose

NextCancel == Next \/ ExternalCancel

CancelSpec == Init /\ [][NextCancel]_vars

\* ---- fairness ----
\* The steps the program takes by itself once they are possible: the event
\* loop runs every ready task, timers expire, the executor finishes a write,
\* a tool returns, connect() and close() return or raise, the caller of the
\* program calls start().  What the surroundings decide is left out: a wake
\* word, a message or the end of the stream from the remote side, a call of
\* stop().
Internal ==
    \/ Start
    \/ RunIdle
    \/ DetLoopStart
    \/ DetLoopExit
    \/ DetUnwind
    \/ EventTaskDone
    \/ StopTaskDone
    \/ IdleResolve
    \/ IdleExit
    \/ ConnectingNoPersonality
    \/ ConnectingBegin
    \/ ConnectFailAtOnce
    \/ ConnectOk
    \/ ConnectFail
    \/ RunConversation
    \/ CapLoopStart
    \/ CapLoopError
    \/ CapUnwind
    \/ TmStart
    \/ TmTick
    \/ TmUnwind
    \/ RecvStart
    \/ RecvYield
    \/ RecvClosed
    \/ RecvFlushDone
    \/ RecvToolDone
    \/ RecvSendDone
    \/ RecvUnwind
    \/ \E i \in DrainIds : DrainStart(i)
    \/ \E i \in DrainIds : DrainGet1(i)
    \/ \E i \in DrainIds : DrainTimeout1(i)
    \/ \E i \in DrainIds : DrainWrite2(i)
    \/ \E i \in DrainIds : DrainGet3(i)
    \/ \E i \in DrainIds : DrainWrite3(i)
    \/ \E i \in DrainIds : DrainTimeout3(i)
    \/ \E i \in DrainIds : DrainUnwind(i)
    \/ ConvResolve
    \/ ConvJoin
    \/ ConvTeardown
    \/ ConvCloseDone
    \/ Exit
    \/ CleanupCloseDone
    \/ StopCloseDone

\* The fair runs are taken with the configured personality present or with no
\* personality at all: the fallback personality changes the length of the
\* silence timeout and nothing else.
FairInit == Init /\ personality # "friendly"

FairSpec == FairInit /\ [][Next]_vars /\ WF_vars(Internal)

\* ======================= properties =======================

\* ---- C1 ----

AllowedChange(a, b) ==
    \/ b = "SHUTTING_DOWN" /\ a # "SHUTTING_DOWN"
    \/ <<a, b>> \in {<<"IDLE", "CONNECTING">>, <<"CONNECTING", "CONVERSATION">>,
                    <<"CONNECTING", "IDLE">>, <<"CONVERSATION", "IDLE">>}

\* C1: within one run of start(), every change of the controller's state is
\* IDLE->CONNECTING, CONNECTING->CONVERSATION, CONNECTING->IDLE,
\* CONVERSATION->IDLE or any state->SHUTTING_DOWN; the state is always one of
\* the four values; once SHUTTING_DOWN is set nothing changes the state
\* again.  Checked with start() cancelled from outside as well.
C1_Transitions ==
    [][/\ state \in RobotState
       /\ state' \in RobotState
       /\ state' # state => AllowedChange(state, state')]_vars

\* a run went through a conversation and has ended in SHUTTING_DOWN
C1_Witness ==
    /\ state = "SHUTTING_DOWN" /\ mainPc = "done"
    /\ nWakes > 0 /\ nMsgs > 0

\* ---- C2 ----

\* C2: the IDLE handler moves the controller to CONNECTING if and only if the
\* wake event was among the finished waits and the controller is still
\* running when the handler goes on; if the stop signal is set (stop fired
\* first, or wake and stop are both set), the state remains IDLE.
C2_IdleHandler ==
    hist.idleLeft =>
        /\ state = "CONNECTING" <=> (woke /\ running)
        /\ state # "CONNECTING" => state = "IDLE"
        /\ stopEvent = "set" => state = "IDLE"

\* the wake event won the wait and stop() was called before the handler went
\* on: the handler has left the state at IDLE
C2_Witness ==
    /\ hist.idleLeft /\ woke /\ ~running
    /\ stopEvent = "set" /\ state = "IDLE"

\* ---- C3 ----

\* the CONNECTING handler has just returned
ConnectingEnded == hist.connResult # "none" \/ hist.persona = "missing"

\* C3: the CONNECTING handler ends in CONVERSATION if and only if opening the
\* remote session succeeded, and the stored handle is then that connected
\* session; it ends in IDLE if and only if the session was not opened, and
\* the stored handle is then empty.
C3_Connecting ==
    ConnectingEnded =>
        /\ state = "CONVERSATION" <=> hist.connResult = "ok"
        /\ state = "IDLE" <=> hist.connResult # "ok"
        /\ hist.connResult = "ok" => session = "set" /\ connected
        /\ hist.connResult # "ok" => session = "none"

\* connect() has raised: the handler has left IDLE and an empty handle
C3_Witness ==
    /\ hist.connResult = "fail"
    /\ state = "IDLE" /\ session = "none" /\ mainPc = "loop"

\* ---- C4 ----

\* C4: from every reachable state of the controller, a state before start()
\* has run included, a call of stop() leads the controller to SHUTTING_DOWN
\* (stop() itself never raises: StopCall has no failing branch).
C4_StopShutsDown == (nStops > 0) ~> (state = "SHUTTING_DOWN")

\* ---- C5 ----

\* C5: once the timeout monitor has seen the configured time pass without an
\* activity-refreshing message, the conversation ends and the controller is
\* back in IDLE, wherever the receive loop is blocked.
C5_TimeoutEnds == hist.timedOut ~> (state = "IDLE")

\* ---- C6 ----

\* C6: however the CONVERSATION handler ends, when it is left the capture
\* pipeline is stopped, the playback pipeline is stopped, the remote session
\* is closed, the stored session handle is empty and the state is IDLE.
\* Checked with start() cancelled from outside as well.
C6_Teardown ==
    hist.convLeft =>
        /\ ~streaming
        /\ ~playing
        /\ ~connected
        /\ session = "none"
        /\ state = "IDLE"

\* ---- C7 ----

\* C7: the receive loop ends when the message stream ends and right after it
\* handled a message tagged error or go_away: no message is dispatched after
\* an error or go_away, and once the loop has ended the conversation ends
\* with the controller back in IDLE.
C7_ReceiveLoopEnds ==
    /\ [](hist.terminal => recvPc = "done")
    /\ [][hist.terminal => nMsgs' = nMsgs]_vars
    /\ (recvPc = "done" /\ mainPc = "conv_wait") ~> (state = "IDLE")

\* an error or go_away was handled while more messages could have followed;
\* the loop has ended and the handler has not yet looked
C7_Witness ==
    /\ hist.terminal /\ recvPc = "done"
    /\ mainPc = "conv_wait" /\ state = "CONVERSATION"
    /\ nMsgs < MaxMsgs /\ connected /\ running

\* ---- C8 ----

\* the flush() started by a turn_complete is blocked: the drain task it
\* awaits has not ended
FlushBlocked == recvPc = "flush" /\ drains[flushTask].st # "none"

\* C8: a turn_complete makes the receive loop await the playback flush: while
\* the flush is blocked the loop stays inside it and no message is
\* dispatched.
C8_FlushAwaited ==
    [][FlushBlocked => recvPc' = "flush" /\ nMsgs' = nMsgs]_vars

\* the flush is blocked on a drain task that is writing, and the remote side
\* could send more
C8_Witness ==
    /\ FlushBlocked /\ drains[flushTask].st = "p2"
    /\ hist.lastMsg = "turn_complete"
    /\ nMsgs < MaxMsgs /\ connected /\ running

\* ---- C9 and C10: frames on their way to the speaker ----

\* the frames of w numbered lo or higher, in the order of w
FramesFrom(w, lo) == LET Late(f) == f >= lo IN SelectSeq(w, Late)

\* u is a prefix of <<lo, lo+1, ..., hi>>
IsPrefixOfRun(u, lo, hi) ==
    /\ Len(u) <= hi - lo + 1
    /\ \A k \in 1..Len(u) : u[k] = lo + k - 1

\* this step dispatches a message tagged m
Dispatches(m) == nMsgs' = nMsgs + 1 /\ hist'.lastMsg = m

\* C9: an interrupted message empties pending playback output: after
\* playback.stop() the queue is empty, is_playing is false and the speaker
\* is stopped; of the frames enqueued since the interruption before, those
\* written to the speaker before this interruption are a prefix; and no
\* frame enqueued before an interruption is written after it.
C9_Interruption ==
    /\ [](hist.lastMsg = "interrupted" => queue = <<>> /\ ~playing /\ ~spkOpen)
    /\ [][Dispatches("interrupted") =>
            IsPrefixOfRun(FramesFrom(written, hist.lastInt + 1),
                          hist.lastInt + 1, hist.nextFrame - 1)]_vars
    /\ [][Len(written') > Len(written) =>
            written'[Len(written')] > hist.lastInt]_vars

\* ---- C10 ----

\* this step is the return of the flush() that a turn_complete started:
\* either the awaited drain task has ended (and the receive task was not
\* cancelled inside the flush), or there was no running drain task to await
FlushCompletes ==
    \/ recvPc = "flush" /\ recvPc' = "wait" /\ ~hist.flushCancel
    \/ Dispatches("turn_complete") /\ recvPc' = "wait"

\* C10: when the flush triggered by a turn_complete completes, exactly the
\* frames of the audio messages of that turn have been written to the
\* speaker, in arrival order; in every turn of a conversation, after earlier
\* turns and after earlier interruptions.
C10_TurnWritten ==
    [][FlushCompletes =>
         /\ IsPrefixOfRun(FramesFrom(written, hist.turnLo),
                          hist.turnLo, hist.nextFrame - 1)
         /\ Len(FramesFrom(written, hist.turnLo)) = hist.nextFrame - hist.turnLo]_vars
\* ---- C11 ----
\* C11: a tool_call whose name is not registered, received while the session
\* is connected, is answered by exactly one tool response, which carries the
\* id of the call and the result {error: "Unknown tool: <name>"}; unless the
\* transport refuses the response or the receive task is cancelled, the
\* receive loop is still running afterwards and asks for the next message.
UnknownCall(h) == h.call.name \in ToolNames \ RegisteredTools

C12_NoEscape ==
    /\ ~hist.escaped
    /\ raising # "error"
    /\ mainPc \in {"cleanup_close", "done"} => ~running
\* ---- C13 ----
\* C13: in every conversation cycle the capture pipeline has been started
\* when the receive task and the timeout task are created, and while the
\* teardown of capture, playback and session is in progress neither the
\* receive task nor the timeout task is still running.
InTeardown == mainPc \in {"conv_capstop", "conv_close"}

C13_Ordering ==
    [][/\ (recvPc' = "new" /\ tmPc' = "new" /\ recvPc # "new") =>
              streaming' /\ micOpen' /\ capTask' = "new"
       /\ InTeardown' => recvPc' \in {"none", "done"}
                         /\ tmPc' \in {"none", "done"}]_vars
\* ---- C14 ----
\* C14: when the main loop is left the cleanup procedure runs and is over
\* before the state becomes SHUTTING_DOWN: whenever the state is
\* SHUTTING_DOWN, _cleanup has returned, with the monitor stopped, no session
\* connected and both audio streams closed.
C14_CleanupFirst ==
    state = "SHUTTING_DOWN" =>
        /\ mainPc = "done"
        /\ ~listening /\ ~connected /\ ~micOpen /\ ~spkOpen
\* ---- C15 ----
\* C15: cleanup is idempotent: run a second time, or run when the monitor,
\* the session, the microphone and the speaker are closed already or were
\* never opened, it does not raise, it returns with everything closed, and
\* it changes nothing of what was closed.
AllClosed == ~listening /\ ~connected /\ ~micOpen /\ ~spkOpen

C15_CleanupIdempotent ==
    [][nCleanups' = nCleanups + 1 =>
          /\ raising' = "none" /\ hist'.escaped = hist.escaped
          /\ mainPc' = mainPc
          /\ AllClosed'
          /\ AllClosed => UNCHANGED <<listening, micOpen, spkOpen, detTask,
                                      sessVars, session, state>>]_vars

C15_Witness ==
    /\ nCleanups = 1 /\ mainPc = "done" /\ state = "SHUTTING_DOWN"
    /\ AllClosed /\ nMsgs > 1 /\ ~hist.escaped
\* ---- C16 ----
\* C16: stop() called in any state, before start() included, returns with
\* the controller not running, the stop signal set, the wake-word monitor
\* stopped and no remote session connected.
StopReturns ==
    \/ nStops' = nStops + 1 /\ stopPc' = "idle"
    \/ stopPc = "closing" /\ stopPc' = "idle"

C16_StopLeaves ==
    [][StopReturns =>
          /\ ~running'
          /\ stopEvent' = "set"
          /\ ~listening'
          /\ ~connected']_vars
\* ---- C17 ----
\* C17: a connection failure is not fatal: after it, as long as nobody asks
\* for a stop and no device fails, the main loop goes on, the controller is
\* in IDLE with no session handle, and once it waits for the wake word the
\* wake-word monitor is listening again, so that the next wake word can start
\* a new attempt.
AfterConnectFailure ==
    /\ hist.afterFail /\ personality # "missing"
    /\ running /\ nStops = 0
    /\ raising = "none" /\ ~hist.escaped

C17_FailureNonFatal ==
    AfterConnectFailure =>
        /\ state = "IDLE" /\ session = "none" /\ ~connected
        /\ mainPc \notin {"cleanup_close", "done"}
        /\ (mainPc = "idle_wait" /\ Free /\ ~wakeEvent) =>
               listening /\ detTask = "run"
\* ---- C18 ----
\* C18: when the configured default personality is unknown and "friendly"
\* exists, _run_connecting uses "friendly": it makes a session and takes the
\* silence timeout of "friendly", and when connect() returns the state becomes
\* CONVERSATION, where the timeout in force is still the one of "friendly".
C18_FriendlyFallback ==
    /\ [][personality = "friendly" =>
              /\ (mainPc = "loop" /\ cpu = "main" /\ state = "CONNECTING"
                  /\ running /\ raising = "none") =>
                     /\ hist'.persona = "friendly"
                     /\ convTimeout' = FriendlyTicks
                     /\ session' = "set" \/ hist'.connResult = "fail"
              /\ (mainPc = "connecting" /\ hist'.connResult = "ok") =>
                     /\ state' = "CONVERSATION"
                     /\ convTimeout' = FriendlyTicks]_vars
    /\ [](personality = "friendly" /\ state = "CONVERSATION" =>
              convTimeout = FriendlyTicks /\ silence <= FriendlyTicks)

C18_Witness ==
    /\ personality = "friendly" /\ state = "CONVERSATION"
    /\ hist.timedOut /\ silence = FriendlyTicks /\ FriendlyTicks # TimeoutTicks
\* ---- C19 ----
\* C19: when neither the configured personality nor "friendly" is loaded,
\* _run_connecting returns to IDLE at once; it makes and connects no session
\* and leaves the stored session handle and the conversation timeout as they
\* were (no handle, the timeout of the settings).
C19_NoPersonality ==
    /\ [][(personality = "missing" /\ mainPc = "loop" /\ cpu = "main"
           /\ state = "CONNECTING" /\ running /\ raising = "none") =>
              /\ state' = "IDLE" /\ mainPc' = "loop"
              /\ session' = session /\ convTimeout' = convTimeout
              /\ UNCHANGED sessVars]_vars
    /\ [](personality = "missing" =>
              /\ session = "none" /\ ~connected /\ ~sessionCm
              /\ convTimeout = TimeoutTicks
              /\ state # "CONVERSATION")

C19_Witness ==
    /\ personality = "missing" /\ hist.persona = "missing"
    /\ state = "IDLE" /\ mainPc = "loop" /\ cpu = "main" /\ nFails = 1
\* ---- C20 ----
\* C20: at most one remote session is connected at any moment: a connected
\* session is always the one the handle refers to, and a new session is made
\* only when the handle is empty and the previous session is closed; whenever
\* the state is IDLE the handle is empty, after a failed connection and after
\* a conversation alike.
C20_OneSession ==
    /\ [](session = "none" => ~connected)
    /\ [](state = "IDLE" => session = "none")
    /\ [][(mainPc = "loop" /\ cpu = "main" /\ state = "CONNECTING"
           /\ running /\ raising = "none") =>
              session = "none" /\ ~connected]_vars

C20_Witness ==
    /\ state = "IDLE" /\ mainPc = "loop" /\ session = "none"
    /\ hist.convLeft /\ nMsgs > 0 /\ exitCalls = 1 /\ ~connected
\* ======================= components on their own =======================

\* A component spec starts from a controller that is never started: only the
\* component's own callers act.
QuietController == ControllerInit /\ personality = "configured"

\* ---- ToolServer (src/src/tools/server.py) ----

\* parameter lists of a ToolDefinition, in the order of the dict: each
\* parameter has a name and the flag `required` of its ToolParam
ParamLists ==
    { <<>>,
      <<[name |-> "text", required |-> TRUE],
        [name |-> "count", required |-> FALSE]>>,
      <<[name |-> "text", required |-> FALSE],
        [name |-> "count", required |-> TRUE]>> }

\* what a handler does when it is called with arguments it accepts: it
\* returns a map, returns something that is not a map, or raises
HandlerKinds == {"map", "text", "number", "raises"}

\* the tools that callers register
ToolDefs ==
    [name : {"set_expression", "show_text"},
     description : {"first description", "second description"},
     parameters : ParamLists,
     handler : HandlerKinds]

\* the names callers ask for, and the arguments: accepted by the handler's
\* signature or not (a missing or an unexpected keyword)
CallNames == {"set_expression", "show_text", "nonexistent_tool"}
CallArgs == {"accepted", "refused"}

\* _tools, a dict in insertion order: the place of a name in it, 0 if absent
ToolIndex(tools, name) ==
    IF \E i \in 1..Len(tools) : tools[i].name = name
    THEN CHOOSE i \in 1..Len(tools) : tools[i].name = name
    ELSE 0

\* register_tool (lines 64-71): self._tools[tool.name] = tool
RegisterTool(tools, tool) ==
    IF ToolIndex(tools, tool.name) = 0
    THEN Append(tools, tool)
    ELSE [tools EXCEPT ![ToolIndex(tools, tool.name)] = tool]

\* what a handler returns: a dict (here with one item), a str or an int
DictValue(key, text) == [type |-> "dict", key |-> key, text |-> text]
StrValue(t) == [type |-> "str", t |-> t]
IntValue(n) == [type |-> "int", n |-> n]
NoValue == [type |-> "none"]

\* tool.handler(**args), awaited if awaitable: what comes back
CallHandler(handler, args) ==
    CASE args = "refused" -> [raised |-> "TypeError", value |-> NoValue]
      [] handler = "raises" -> [raised |-> "ValueError", value |-> NoValue]
      [] handler = "map" ->
             [raised |-> "none", value |-> DictValue("status", <<"ok">>)]
      [] handler = "text" -> [raised |-> "none", value |-> StrValue("done")]
      [] OTHER -> [raised |-> "none", value |-> IntValue(42)]

\* isinstance(result, dict)
IsMap(v) == v.type = "dict"

\* str(result) of a result that is not a dict
Str(v) == IF v.type = "int"
          THEN (IF v.n = 42 THEN "42" ELSE "0")
          ELSE v.t

\* a faulty variant of CaughtByExecute: the TypeError of a call with wrong
\* arguments is not caught
CaughtByExecuteNarrow == {"ValueError"}

\* the exceptions that `except Exception` catches (line 192)
CaughtByExecute == {"TypeError", "ValueError"}

\* execute_tool (lines 171-194): what the caller gets, a returned dict or an
\* exception
ExecuteTool(tools, name, args) ==
    IF ToolIndex(tools, name) = 0
    THEN [raised |-> "none",
          value |-> DictValue("error", <<"Unknown tool: ", name>>)]
    ELSE LET out == CallHandler(tools[ToolIndex(tools, name)].handler, args)
         IN  IF out.raised # "none"
             THEN IF out.raised \in CaughtByExecute
                  THEN [raised |-> "none",
                        value |-> DictValue("error",
                                            <<"Tool execution failed: ",
                                              out.raised>>)]
                  ELSE out
             ELSE IF IsMap(out.value)
                  THEN out
                  ELSE [raised |-> "none",
                        value |-> DictValue("result", <<Str(out.value)>>)]

\* the last call made on the ToolServer
NoTool == [name |-> "none", description |-> "none", parameters |-> <<>>,
           handler |-> "none"]
NoToolCall == [op |-> "none", name |-> "none", args |-> "none",
               tool |-> NoTool]

\* the ToolServer under its callers: the registry and what the last call of
\* execute_tool or get_tool_declarations gave
ToolServerInit ==
    /\ QuietController
    /\ unit = [kind |-> "tools", tools |-> <<>>, call |-> NoToolCall,
               out |-> [raised |-> "none", value |-> NoValue]]

\* a caller awaits execute_tool(name, args)
Execute ==
    /\ unit.kind = "tools"
    /\ \E name \in CallNames, args \in CallArgs :
           unit' = [unit EXCEPT
                       !.call = [op |-> "execute", name |-> name,
                                 args |-> args, tool |-> NoTool],
                       !.out = ExecuteTool(unit.tools, name, args)]
    /\ UNCHANGED controllerVars
\* a faulty variant of IsRequired: every declared parameter is required
IsRequiredAlways(param) == TRUE

\* `if param.required` (line 158)
IsRequired(param) == param.required

\* the names of the parameters of a list that go into "required", in the
\* order of the dict (lines 153-159)
RECURSIVE RequiredNames(_)
RequiredNames(params) ==
    IF params = <<>>
    THEN <<>>
    ELSE IF IsRequired(Head(params))
         THEN <<Head(params).name>> \o RequiredNames(Tail(params))
         ELSE RequiredNames(Tail(params))

\* the declaration of one tool (lines 144-165): "parameters" is there only
\* for a tool that has parameters
Declaration(tool) ==
    [name |-> tool.name,
     description |-> tool.description,
     parameters |->
         IF tool.parameters = <<>>
         THEN [present |-> FALSE, properties |-> <<>>, required |-> <<>>]
         ELSE [present |-> TRUE,
               properties |-> [i \in 1..Len(tool.parameters) |->
                                  tool.parameters[i].name],
               required |-> RequiredNames(tool.parameters)]]

\* get_tool_declarations (lines 134-169): None without tools, else one
\* declaration per registered tool, in the order of _tools
GetToolDeclarations(tools) ==
    IF tools = <<>>
    THEN [none |-> TRUE, declarations |-> <<>>]
    ELSE [none |-> FALSE,
          declarations |-> [i \in 1..Len(tools) |-> Declaration(tools[i])]]

\* a caller registers a tool and asks for the declarations
RegisterAndDeclare ==
    /\ unit.kind = "tools"
    /\ \E tool \in ToolDefs :
           LET tools == RegisterTool(unit.tools, tool)
           IN  unit' = [unit EXCEPT
                           !.tools = tools,
                           !.call = [op |-> "declare", name |-> tool.name,
                                     args |-> "none", tool |-> tool],
                           !.out = [raised |-> "none",
                                    value |-> GetToolDeclarations(tools)]]
    /\ UNCHANGED controllerVars

ToolServerNext == RegisterAndDeclare \/ Execute

ToolServerSpec == ToolServerInit /\ [][ToolServerNext]_vars

\* ---- C21 ----
\* C21: execute_tool never raises to its caller.  For a name that is not
\* registered the result is {error: "Unknown tool: <name>"}; when the handler
\* raises, or cannot be called with the arguments, the result has the one
\* field error; a handler result that is not a map is wrapped into
\* {result: str(value)}; a map is returned as it is; the registry is the same
\* after every execution.
C21_ExecuteNeverRaises ==
    [][unit'.call.op = "execute" =>
          LET name == unit'.call.name
              args == unit'.call.args
              i == ToolIndex(unit.tools, name)
              out == unit'.out
          IN  /\ out.raised = "none"
              /\ out.value.type = "dict"
              /\ unit'.tools = unit.tools
              /\ i = 0 =>
                     out.value = DictValue("error", <<"Unknown tool: ", name>>)
              /\ (i # 0 /\ (args = "refused"
                            \/ unit.tools[i].handler = "raises")) =>
                     out.value.key = "error"
              /\ (i # 0 /\ args = "accepted"
                  /\ unit.tools[i].handler = "text") =>
                     out.value = DictValue("result", <<"done">>)
              /\ (i # 0 /\ args = "accepted"
                  /\ unit.tools[i].handler = "number") =>
                     out.value = DictValue("result", <<"42">>)
              /\ (i # 0 /\ args = "accepted"
                  /\ unit.tools[i].handler = "map") =>
                     out.value = DictValue("status", <<"ok">>)]_vars

C21_Witness ==
    /\ unit.kind = "tools" /\ unit.call.op = "execute"
    /\ unit.call.args = "refused"
    /\ ToolIndex(unit.tools, unit.call.name) = 2
    /\ unit.out.raised = "none" /\ unit.out.value.key = "error"
\* ---- C23 ----
\* C23: after a tool was registered, the declaration list has exactly one
\* declaration per registered name; the one of the tool just registered
\* carries its name, its description and, as required, exactly the set of
\* its parameters that are required (the optional ones are declared but not
\* required); a tool registered under an existing name has replaced the
\* earlier one.
RequiredSet(tool) ==
    {tool.parameters[i].name : i \in {k \in 1..Len(tool.parameters) :
                                         tool.parameters[k].required}}
SeqRange(q) == {q[i] : i \in 1..Len(q)}

C23_DeclarationRoundTrip ==
    [][unit'.call.op = "declare" =>
          LET tool == unit'.call.tool
              decls == unit'.out.value.declarations
              mine == {i \in 1..Len(decls) : decls[i].name = tool.name}
              before == {unit.tools[i].name : i \in 1..Len(unit.tools)}
          IN  /\ ~unit'.out.value.none
              /\ Cardinality(mine) = 1
              /\ \A i \in mine :
                     /\ decls[i].description = tool.description
                     /\ SeqRange(decls[i].parameters.required) =
                            RequiredSet(tool)
                     /\ Len(decls[i].parameters.required) =
                            Cardinality(RequiredSet(tool))
                     /\ SeqRange(decls[i].parameters.properties) =
                            {tool.parameters[k].name :
                                 k \in 1..Len(tool.parameters)}
              /\ Len(decls) = Cardinality(before \cup {tool.name})
              /\ {decls[i].name : i \in 1..Len(decls)} =
                     before \cup {tool.name}]_vars

C23_Witness ==
    /\ unit.kind = "tools" /\ unit.call.op = "declare"
    /\ Len(unit.tools) = 2
    /\ unit.call.name = unit.tools[1].name
    /\ Len(unit.call.tool.parameters) = 2
    /\ unit.out.value.declarations[1].parameters.required = <<"count">>
\* ---- C22 ----
\* C22: within a conversation at most one response is sent for a tool_call;
\* a response that is sent answers the message received last (it carries the
\* id of that tool_call), and no message is dispatched while a tool_call is
\* being executed or its response is being sent: responses go out in the
\* order of the calls.
C22_ResponsesInOrder ==
    [][/\ Len(hist'.responses) <= 1
       /\ (hist'.responses # hist.responses /\ hist'.responses # <<>>) =>
              /\ hist'.call.name \in ToolNames
              /\ hist'.responses[1].id = hist'.call.id
              /\ hist'.call.id = nMsgs'
       /\ nMsgs' = nMsgs + 1 => recvPc \notin {"tool", "send"}]_vars

C22_Witness ==
    /\ hist.call.name \in RegisteredTools /\ hist.call.id > 2
    /\ recvPc = "wait" /\ cpu = "recv"
    /\ Len(hist.responses) = 1 /\ hist.responses[1].id = hist.call.id

\* ---- C24 ----
\* C24: when the transport raises during receive, the consumer gets one
\* error-tagged message, the last of the sequence, and the session is marked
\* disconnected, also for a consumer that stops iterating on the error
\* message.  The receive loop is such a consumer (controller.py:243-244): the
\* step that hands it the error message must leave is_connected false.
C24_ErrorDisconnects ==
    [][Dispatches("error") => (recvPc' = "done" /\ ~connected')]_vars

\* ---- C25 ----
\* C25: a cancellation delivered to the receive task while it waits for the
\* next message, awaits the flush of a turn_complete or awaits a tool is
\* propagated: once cancelled, the loop dispatches no further message.
C25_CancelEndsLoop ==
    [][(recvPc = "cancelled" \/ hist.flushCancel) => nMsgs' # nMsgs + 1]_vars

\* ---- AudioCaptureStream (src/src/audio/capture.py) ----
\* The capture pipeline on its own: one caller of start() and stop(), the
\* loop task, and a session whose is_connected changes under it.  Frames are
\* numbered in the order the microphone delivers them.

MaxFrames == 3

\* a faulty variant of Forwards: the connection is not looked at
ForwardsUnconnected(u) == u.streaming

\* `if self._streaming and self._session.is_connected` (capture.py:88)
Forwards(u) == u.streaming /\ u.connected

\* the microphone may be open already (the wake-word monitor shares it)
PipelineInit ==
    /\ QuietController
    /\ \E open \in BOOLEAN, conn \in BOOLEAN :
           unit = [kind |-> "capture", micOpen |-> open, streaming |-> FALSE,
                   task |-> "none", stopPc |-> "idle", connected |-> conn,
                   nRead |-> 0, chunk |-> 0, sent |-> <<>>,
                   opened |-> FALSE,   \* this pipeline opened the microphone
                   tasks |-> 0]        \* loop tasks created and not finished

\* start() (lines 42-58): nothing on a streaming pipeline; the microphone is
\* opened only when it is closed
PipelineStart ==
    /\ unit.kind = "capture" /\ unit.stopPc = "idle"
    /\ unit' = IF unit.streaming THEN unit
               ELSE [unit EXCEPT !.micOpen = TRUE,
                                 !.opened = (unit.opened \/ ~unit.micOpen),
                                 !.streaming = TRUE,
                                 !.task = "new",
                                 !.tasks = unit.tasks + 1]
    /\ UNCHANGED controllerVars

\* the end of stop() (lines 68-72): the task is forgotten and the microphone
\* is closed if it is open
StopEnd(u) == [u EXCEPT !.task = "none", !.stopPc = "idle",
                        !.micOpen = FALSE, !.opened = FALSE]

\* stop() (lines 60-67): the flag is cleared, the task is cancelled and
\* awaited; with no task, or a finished one, stop() does not suspend
PipelineStop ==
    /\ unit.kind = "capture" /\ unit.stopPc = "idle"
    /\ unit' = IF unit.task \in {"none", "done"}
               THEN StopEnd([unit EXCEPT !.streaming = FALSE])
               ELSE [unit EXCEPT !.streaming = FALSE, !.task = "cancelled",
                                 !.stopPc = "await"]
    /\ UNCHANGED controllerVars

\* the awaited task has ended: stop() goes on after line 67
PipelineStopReturns ==
    /\ unit.kind = "capture" /\ unit.stopPc = "await" /\ unit.task = "done"
    /\ unit' = StopEnd(unit)
    /\ UNCHANGED controllerVars

\* the loop task runs for the first time, and again after `sleep(0)`:
\* `while self._streaming` (line 84), then the read in the executor
LoopResume ==
    /\ unit.kind = "capture" /\ unit.task \in {"new", "yield"}
    /\ unit.streaming => unit.nRead < MaxFrames
    /\ unit' = IF unit.streaming
               THEN [unit EXCEPT !.task = "read", !.chunk = 0]
               ELSE [unit EXCEPT !.task = "done", !.chunk = 0,
                                 !.tasks = unit.tasks - 1]
    /\ UNCHANGED controllerVars

\* the read has completed (lines 85-90): the frame goes to send_audio or is
\* dropped; the task suspends in the send or in sleep(0)
LoopRead ==
    /\ unit.kind = "capture" /\ unit.task = "read"
    /\ unit' = [unit EXCEPT
                   !.nRead = unit.nRead + 1,
                   !.chunk = unit.nRead + 1,
                   !.sent = IF Forwards(unit)
                            THEN Append(unit.sent, unit.nRead + 1)
                            ELSE unit.sent,
                   !.task = "yield"]
    /\ UNCHANGED controllerVars

\* read_chunk or send_audio raises (lines 93-95)
LoopFails ==
    /\ unit.kind = "capture" /\ unit.task \in {"read", "yield"}
    /\ unit' = [unit EXCEPT !.streaming = FALSE, !.task = "done",
                            !.tasks = unit.tasks - 1]
    /\ UNCHANGED controllerVars

\* the cancelled task ends (lines 91-92)
LoopUnwind ==
    /\ unit.kind = "capture" /\ unit.task = "cancelled"
    /\ unit' = [unit EXCEPT !.task = "done", !.tasks = unit.tasks - 1]
    /\ UNCHANGED controllerVars

\* the session connects or disconnects (session.py:134, 176, 213)
SessionFlips ==
    /\ unit.kind = "capture"
    /\ unit' = [unit EXCEPT !.connected = ~unit.connected]
    /\ UNCHANGED controllerVars

PipelineNext ==
    \/ PipelineStart \/ PipelineStop \/ PipelineStopReturns
    \/ LoopResume \/ LoopRead \/ LoopFails \/ LoopUnwind
    \/ SessionFlips

PipelineSpec == PipelineInit /\ [][PipelineNext]_vars

\* ---- C26 ----
\* C26: the capture loop hands a frame to the session only if, once its read
\* has completed, the pipeline is streaming and the session is connected; a
\* frame that was not handed over then is never sent later; frames reach the
\* session in the order they were read.
C26_ForwardRule ==
    /\ [][unit'.sent # unit.sent =>
            /\ unit.task = "read" /\ unit.streaming /\ unit.connected
            /\ unit.stopPc = "idle"
            /\ unit'.sent = Append(unit.sent, unit'.chunk)
            /\ unit'.chunk = unit'.nRead]_vars
    /\ [](\A i \in 1..Len(unit.sent) : \A j \in 1..Len(unit.sent) :
             i < j => unit.sent[i] < unit.sent[j])

\* frame 1 was dropped while the session was disconnected, frame 2 was sent,
\* frame 3 was read after the session had gone again
C26_Witness ==
    /\ unit.kind = "capture" /\ unit.sent = <<2>> /\ unit.nRead = 3
    /\ unit.task = "yield" /\ ~unit.connected

\* ---- C27 ----
\* C27: stop() closes the microphone only if this pipeline opened it, so a
\* microphone that was open when start() was called is still open after
\* stop(); start() on a streaming pipeline starts no second loop.
C27_ClosesOwnMicOnly ==
    /\ [][(unit.task # "none" /\ unit.micOpen /\ ~unit'.micOpen) =>
              unit.opened]_vars
    /\ [](unit.tasks <= 1)

\* ---- C28 ----
\* C28: flush() is a synchronization point.  When a flush that awaited the
\* drain task returns, the drain loop has taken the sentinel (none is left
\* in the queue), every frame enqueued before the flush (and not discarded
\* by an interruption) has been written to the speaker, and is_playing is
\* false.  A flush with no running drain task returns at once and enqueues
\* nothing.
C28_FlushSynchronizes ==
    /\ [][(recvPc = "flush" /\ recvPc' = "wait") =>
            /\ \A f \in (hist.lastInt + 1)..(hist.nextFrame - 1) :
                   \E k \in 1..Len(written') : written'[k] = f
            /\ \A k \in 1..Len(queue') : queue'[k] # Sentinel
            /\ ~playing']_vars
    /\ [][(Dispatches("turn_complete") /\ recvPc' = "wait") =>
            queue' = queue]_vars

\* ---- C29 ----
\* drain task i takes a step that hands a frame to the speaker
DrainWrites(i) == drains'[i] # drains[i] /\ Len(written') = Len(written) + 1

\* drain task i leaves its loop on this step without having been cancelled
DrainReturns(i) ==
    drains[i].st \in {"p1", "p2", "p3", "p3w"} /\ drains'[i] = NoDrain

\* the queue hands out a frame, not the sentinel
FrameAhead == queue # <<>> /\ Head(queue) # Sentinel

\* C29: a drain loop writes nothing until it has collected BufferChunks
\* initial frames, or a wait for a frame timed out, or the sentinel arrived;
\* it then writes the collected frames in the order collected, and later
\* frames in the order of the queue, until the sentinel arrives, playback is
\* stopped, or a wait times out.
C29_DrainPolicy ==
    /\ [][\A i \in DrainIds :
            /\ (DrainWrites(i) /\ drains[i].st = "p1") =>
                   /\ \/ FrameAhead /\ Len(drains[i].buf) + 1 = BufferChunks
                      \/ ~FrameAhead /\ drains[i].buf # <<>>
                   /\ written' = Append(written,
                                   Head(drains[i].buf \o
                                        (IF FrameAhead THEN <<Head(queue)>>
                                                       ELSE <<>>)))
            /\ (DrainWrites(i) /\ drains[i].st = "p2") =>
                   /\ written' = Append(written, Head(drains[i].buf))
                   /\ drains'[i].buf = Tail(drains[i].buf)
            /\ (DrainWrites(i) /\ drains[i].st \in {"p3", "p3w"}) =>
                   /\ drains[i].st = "p3" /\ FrameAhead
                   /\ written' = Append(written, Head(queue))
            /\ DrainReturns(i) =>
                   \/ ~playing \/ ~spkOpen
                   \/ drains[i].st \in {"p1", "p3"} /\ ~FrameAhead
            /\ drains[i].st = "p1" => Len(drains[i].buf) < BufferChunks
         ]_vars
    /\ [](\A i \in DrainIds : \A j \in 1..Len(drains[i].buf) :
             \A k \in 1..Len(drains[i].buf) :
                 j < k => drains[i].buf[j] < drains[i].buf[k])

\* a drain loop has filled its initial buffer, written it in order and gone
\* on with a later frame
C29_Witness ==
    /\ written = <<1, 2, 3, 4>> /\ playing
    /\ \E i \in DrainIds : drains[i].st = "p3w"

\* ---- WakeWordDetector (src/src/wake_word/detector.py) ----
\* The wake-word monitor on its own, with a caller of start(), stop(),
\* pause() and resume().  The microphone does not fail, so the detection
\* loop ends only by `while self._listening` or by cancellation.

MaxStale == 2

\* is_listening (lines 105-108)
IsListening(u) == u.listening /\ ~u.paused

MonitorInit ==
    /\ QuietController
    /\ unit = [kind |-> "monitor", listening |-> FALSE, paused |-> FALSE,
               task |-> "none",     \* _task: "none", "new", "run", "done"
               stale |-> 0,         \* cancelled loops that have not unwound
               orphans |-> 0,       \* running loops that _task has dropped
               micOpen |-> FALSE, model |-> FALSE,
               fired |-> FALSE,     \* on_detected was called
               started |-> FALSE]   \* start() was called, stop() not since

\* start() (lines 53-78): nothing on a listening monitor
MonitorStart ==
    /\ unit.kind = "monitor"
    /\ unit.task \in {"new", "run"} /\ ~unit.listening =>
           unit.orphans < MaxStale
    /\ unit' = IF unit.listening THEN [unit EXCEPT !.started = TRUE]
               ELSE [unit EXCEPT
                        !.model = TRUE, !.micOpen = TRUE,
                        !.listening = TRUE, !.paused = FALSE,
                        !.task = "new",
                        !.orphans = IF unit.task \in {"new", "run"}
                                    THEN unit.orphans + 1 ELSE unit.orphans,
                        !.started = TRUE]
    /\ UNCHANGED controllerVars

\* stop() (lines 80-89): the task is cancelled and not awaited; a task that
\* has not run yet ends without entering its try block
MonitorStop ==
    /\ unit.kind = "monitor"
    /\ unit.task = "run" => unit.stale < MaxStale
    /\ unit' = [unit EXCEPT
                   !.listening = FALSE, !.task = "none",
                   !.stale = IF unit.task = "run" THEN unit.stale + 1
                             ELSE unit.stale,
                   !.micOpen = FALSE, !.model = FALSE,
                   !.started = FALSE]
    /\ UNCHANGED controllerVars

\* pause() (lines 91-96)
MonitorPause ==
    /\ unit.kind = "monitor"
    /\ unit' = [unit EXCEPT !.paused = TRUE]
    /\ UNCHANGED controllerVars

\* resume() (lines 98-103)
MonitorResume ==
    /\ unit.kind = "monitor"
    /\ unit' = [unit EXCEPT !.paused = FALSE]
    /\ UNCHANGED controllerVars

\* the loop task tests `while self._listening` (line 118), at its first run
\* and after a read: it suspends in the next read or leaves by the finally
MonitorLoop ==
    /\ unit.kind = "monitor" /\ unit.task \in {"new", "run"}
    /\ unit' = IF unit.listening
               THEN [unit EXCEPT !.task = "run",
                                 !.fired = (unit.task = "run" /\ ~unit.paused)]
               ELSE [unit EXCEPT !.task = "done", !.listening = FALSE]
    /\ UNCHANGED controllerVars

\* a loop that _task no longer names finds _listening false and leaves
MonitorOrphanExit ==
    /\ unit.kind = "monitor" /\ unit.orphans > 0 /\ ~unit.listening
    /\ unit' = [unit EXCEPT !.orphans = unit.orphans - 1]
    /\ UNCHANGED controllerVars

\* a cancelled loop unwinds: `finally: self._listening = False` (lines
\* 154-159)
MonitorStaleUnwind ==
    /\ unit.kind = "monitor" /\ unit.stale > 0
    /\ unit' = [unit EXCEPT !.stale = unit.stale - 1, !.listening = FALSE]
    /\ UNCHANGED controllerVars

MonitorNext ==
    \/ MonitorStart \/ MonitorStop \/ MonitorPause \/ MonitorResume
    \/ MonitorLoop \/ MonitorOrphanExit \/ MonitorStaleUnwind

MonitorSpec == MonitorInit /\ [][MonitorNext]_vars

\* ---- C30 ----
\* C30: is_listening is true exactly when the monitor has been started, has
\* not been stopped and is not paused; start() on a listening monitor and
\* stop() on a stopped monitor change nothing; pause() and resume() change
\* only the paused flag, leaving the microphone open and the loop running.
C30_ListeningExact ==
    /\ [](IsListening(unit) <=> (unit.started /\ ~unit.paused))
    /\ [][(MonitorStart /\ unit.listening) => unit' = unit]_vars
    /\ [][(MonitorStop /\ ~unit.started /\ unit.task = "none") =>
              unit' = unit]_vars
    /\ [][(MonitorPause \/ MonitorResume) =>
              unit' = [unit EXCEPT !.paused = unit'.paused]]_vars

\* ---- WakeWordDetector._detection_loop (detector.py:110-159) ----
\* The detection loop of a started monitor, with a caller of pause() and
\* resume().  Microphone bytes are counted in blocks of 512 bytes, numbered
\* in the order they are read; scores are in tenths.

MaxReads == 4

\* _OWW_FRAME_BYTES (line 26)
OwwFrameBytes == 1280 * 2

\* the default sensitivity 0.5 (line 43), in tenths
Sensitivity == 5

FrameBlocks == OwwFrameBytes \div 512

\* sizes of a microphone chunk, in blocks: 1024, 2560 and 4096 bytes
ChunkBlocks == {2, 5, 8}

\* what predict() returns: one score per model, in the order of the dict
ScoreLists == {<<4>>, <<5>>, <<6>>, <<4, 6>>, <<6, 6>>, <<4, 4>>}

\* the blocks a..b of the microphone stream
Blocks(a, b) == [k \in 1..(b - a + 1) |-> a + k - 1]

\* a faulty variant of Leftover: what follows the frame is thrown away
LeftoverDropped(buf) == <<>>

\* `frame_data = audio_buffer[:_OWW_FRAME_BYTES]` (line 132)
TakeFrame(buf) == SubSeq(buf, 1, FrameBlocks)

\* `audio_buffer = audio_buffer[_OWW_FRAME_BYTES:]` (line 133)
Leftover(buf) == SubSeq(buf, FrameBlocks + 1, Len(buf))

RECURSIVE InvocationsNoBreak(_)
\* a faulty variant of Invocations: no `break` after the callback
InvocationsNoBreak(scores) ==
    IF scores = <<>> THEN 0
    ELSE (IF Head(scores) >= Sensitivity THEN 1 ELSE 0)
         + InvocationsNoBreak(Tail(scores))

RECURSIVE Invocations(_)
\* the calls of on_detected for one scored frame (lines 140-153): the first
\* score at or above the threshold fires the callback and ends the loop over
\* the predictions
Invocations(scores) ==
    IF scores = <<>> THEN 0
    ELSE IF Head(scores) >= Sensitivity THEN 1
    ELSE Invocations(Tail(scores))

DetectInit ==
    /\ QuietController
    /\ unit = [kind |-> "detect", paused |-> FALSE,
               pc |-> "read",       \* "read", "sleep", "predict"
               buffer |-> <<>>,     \* audio_buffer
               next |-> 1,          \* number of the next block of the microphone
               reads |-> 0,
               frame |-> <<>>,      \* the frame handed to predict()
               scores |-> <<>>,     \* what predict() returned for it
               calls |-> 0,         \* invocations of on_detected
               reset |-> FALSE,     \* the classifier was reset after the last frame
               big |-> FALSE,       \* a chunk larger than a frame was read
               last |-> "none"]     \* what the loop did last: "dropped",
                                    \* "kept", "fed", "scored", "fired"

\* a read completes (lines 119-134): the chunk is dropped while paused, else
\* appended; with a full frame in the buffer one frame goes to predict()
DetectRead ==
    /\ unit.kind = "detect" /\ unit.pc = "read" /\ unit.reads < MaxReads
    /\ \E c \in ChunkBlocks :
         LET buf == unit.buffer \o Blocks(unit.next, unit.next + c - 1)
             u == [unit EXCEPT !.next = unit.next + c,
                               !.reads = unit.reads + 1,
                               !.big = (unit.big \/ c > FrameBlocks)]
         IN  unit' = IF unit.paused
                     THEN [u EXCEPT !.pc = "sleep", !.last = "dropped"]
                     ELSE IF Len(buf) < FrameBlocks
                     THEN [u EXCEPT !.buffer = buf, !.last = "kept"]
                     ELSE [u EXCEPT !.buffer = Leftover(buf),
                                    !.frame = TakeFrame(buf),
                                    !.scores = <<>>, !.reset = FALSE,
                                    !.pc = "predict", !.last = "fed"]
    /\ UNCHANGED controllerVars

\* `await asyncio.sleep(0.01); continue` (lines 123-125)
DetectSlept ==
    /\ unit.kind = "detect" /\ unit.pc = "sleep"
    /\ unit' = [unit EXCEPT !.pc = "read"]
    /\ UNCHANGED controllerVars

\* predict() returns (lines 136-153)
DetectScored ==
    /\ unit.kind = "detect" /\ unit.pc = "predict"
    /\ \E scores \in ScoreLists :
         unit' = IF Invocations(scores) > 0
                 THEN [unit EXCEPT !.scores = scores,
                                   !.calls = unit.calls + Invocations(scores),
                                   !.reset = TRUE, !.buffer = <<>>,
                                   !.pc = "read", !.last = "fired"]
                 ELSE [unit EXCEPT !.scores = scores, !.pc = "read",
                                   !.last = "scored"]
    /\ UNCHANGED controllerVars

\* pause() (lines 91-96)
DetectPause ==
    /\ unit.kind = "detect" /\ ~unit.paused
    /\ unit' = [unit EXCEPT !.paused = TRUE, !.reset = TRUE]
    /\ UNCHANGED controllerVars

\* resume() (lines 98-103)
DetectResume ==
    /\ unit.kind = "detect" /\ unit.paused
    /\ unit' = [unit EXCEPT !.paused = FALSE, !.reset = TRUE]
    /\ UNCHANGED controllerVars

DetectNext ==
    \/ DetectRead \/ DetectSlept \/ DetectScored
    \/ DetectPause \/ DetectResume

DetectSpec == DetectInit /\ [][DetectNext]_vars

\* ---- C31 ----
\* C31: while the monitor is paused every frame read from the microphone is
\* discarded (nothing is accumulated or scored) and the wake callback is
\* never invoked, yet the loop keeps reading; after resume() a frame whose
\* score reaches the threshold fires the callback again.
C31_PausedDiscards ==
    /\ [][(unit.paused /\ unit'.reads > unit.reads) =>
            /\ unit'.buffer = unit.buffer /\ unit'.frame = unit.frame
            /\ unit'.calls = unit.calls /\ unit'.pc = "sleep"]_vars
    /\ [][unit.pc = "sleep" => unit'.pc \in {"sleep", "read"}]_vars
    /\ [][unit'.calls > unit.calls => ~unit.paused]_vars

\* ---- C32 ----
\* C32: for every scored frame the wake callback is invoked if and only if
\* at least one score is at or above the sensitivity, and at most once;
\* right after an invocation the classifier has been reset and the
\* accumulation buffer is empty.
C32_CallbackRule ==
    /\ [][(unit.pc = "predict" /\ unit'.pc # "predict") =>
            /\ unit'.calls - unit.calls \in {0, 1}
            /\ unit'.calls = unit.calls + 1 <=>
                   \E k \in 1..Len(unit'.scores) :
                       unit'.scores[k] >= Sensitivity
            /\ unit'.calls > unit.calls =>
                   unit'.reset /\ unit'.buffer = <<>>]_vars
    /\ [][unit'.calls # unit.calls => unit.pc = "predict"]_vars

\* the second of two scores reached the threshold: one invocation, and the
\* bytes left over from a 4096-byte chunk are gone
C32_Witness ==
    /\ unit.kind = "detect" /\ unit.last = "fired" /\ unit.scores = <<4, 6>>
    /\ unit.calls = 1 /\ unit.next = 9 /\ unit.buffer = <<>>

\* ---- C33 ----
\* C33: every frame passed to the classifier has exactly the detector frame
\* size and consists of microphone bytes in read order; the bytes left over
\* after a frame is extracted are kept for the next frame; and when no
\* microphone chunk is larger than a detector frame, the accumulation buffer
\* holds less than one frame after every loop iteration.
C33_FrameAssembly ==
    /\ [][unit'.last = "fed" /\ unit'.reads > unit.reads =>
            /\ Len(unit'.frame) * 512 = OwwFrameBytes
            /\ unit'.frame \o unit'.buffer =
                   unit.buffer \o Blocks(unit.next, unit'.next - 1)
            /\ \A j \in 1..Len(unit'.frame) : \A k \in 1..Len(unit'.frame) :
                   j < k => unit'.frame[j] < unit'.frame[k]]_vars
    /\ [](~unit.big => Len(unit.buffer) * 512 < OwwFrameBytes)

\* the second frame starts with what was left over from the first and ends
\* inside the last chunk, whose last block is kept
C33_Witness ==
    /\ unit.kind = "detect" /\ unit.last = "fed" /\ ~unit.big
    /\ unit.frame = <<6, 7, 8, 9, 10>> /\ unit.buffer = <<11>>
    /\ unit.reads = 4

\* ---- C34 ----
\* C34: handling a tool_call refreshes the activity timestamp before the
\* tool is dispatched, then dispatches the tool, then sends the result keyed
\* by the call id if the session is still connected; with the session no
\* longer connected after the tool ran, no response is sent and nothing is
\* raised.
C34_ToolCallOrder ==
    /\ [][Dispatches("tool_call") => silence' = 0]_vars
    /\ [][(recvPc = "tool" /\ recvPc' \notin {"tool", "cancelled"}) =>
            IF session = "set" /\ connected
            THEN /\ recvPc' = "send" /\ Len(hist'.responses) = 1
                 /\ hist'.responses[1].id = hist.call.id
            ELSE recvPc' = "wait" /\ hist'.responses = <<>>]_vars

\* ---- C35 ----
\* C35: only input_transcription, turn_complete, interrupted and tool_call
\* messages refresh the activity timestamp; audio, transcription,
\* setup_complete, tool_call_cancellation, go_away and error leave it and
\* the controller state as they are; so a conversation in which no
\* refreshing message arrives ends, however many audio and transcription
\* messages keep arriving.
C35_RefreshingMessages ==
    /\ [][\A m \in {"audio", "transcription", "setup_complete",
                     "tool_call_cancellation", "go_away", "error"} :
            Dispatches(m) => silence' = silence /\ state' = state]_vars
    /\ [][\A m \in {"input_transcription", "turn_complete", "interrupted"} :
            Dispatches(m) => silence' = 0]_vars
    /\ [][(recvPc = "tool" /\ recvPc' \in {"send", "wait"}) =>
              silence' = 0]_vars
    /\ [][(silence' < silence /\ mainPc' = mainPc) =>
              \/ \E m \in {"input_transcription", "turn_complete",
                            "interrupted", "tool_call"} : Dispatches(m)
              \/ recvPc = "tool"]_vars
    /\ (state = "CONVERSATION" /\ tmPc = "sleep") ~>
           \/ state # "CONVERSATION"
           \/ hist.lastMsg \in {"input_transcription", "turn_complete",
                                "interrupted", "tool_call"}

\* a transcription arrived after the timeout monitor had seen the timeout,
\* with audio playing: the silence measured is still the timeout
C35_Witness ==
    /\ hist.timedOut /\ hist.lastMsg = "transcription"
    /\ silence = convTimeout /\ state = "CONVERSATION" /\ playing

\* ---- C36 ----
\* C36: a frame enqueued after playback.stop() is played by the drain loop
\* that the next play_chunk starts, and the drain loop cancelled by stop(),
\* which stop() does not await, never clears the playing flag of the new
\* drain loop when it unwinds.
C36_StaleDrainHarmless ==
    [][\A i \in DrainIds :
          (drains[i].st = "cancelled" /\ drains'[i] = NoDrain
              /\ pbTask # 0 /\ pbTask # i) => playing' = playing]_vars

\* ---- C37 ----
\* C37: after the monitor's stop() is followed by start(), the new detection
\* loop keeps listening until its own stop() or its own error: the cancelled
\* previous loop, which stop() does not await, never clears the listening
\* flag of the new loop when it unwinds, so the controller waiting in IDLE
\* can still be woken.
C37_StaleLoopHarmless ==
    /\ [][(detStale /\ ~detStale' /\ detTask \in {"new", "run"}) =>
              listening' = listening]_vars
    /\ [][(mainPc = "idle_wait" /\ mainPc' = "idle_wait") =>
              (listening => listening' \/ nStops' > nStops)]_vars

\* ---- C38 ----
\* C38: when start() returns, whatever state the stop request or an external
\* cancellation arrived in, no remote session is connected, the microphone
\* and the speaker are closed, the monitor is not listening, and no capture,
\* playback-drain, receive or timeout task is still running.  A task that
\* was cancelled and has not yet unwound is not counted as running.
C38_NothingLeftRunning ==
    [][(mainPc # "done" /\ mainPc' = "done") =>
          /\ ~connected' /\ ~micOpen' /\ ~spkOpen' /\ ~listening'
          /\ capTask' \notin {"new", "run"}
          /\ recvPc' \in {"none", "done", "cancelled"}
          /\ tmPc' \in {"none", "done", "cancelled"}
          /\ \A i \in DrainIds : drains'[i].st \in {"none", "cancelled"}]_vars

\* ---- C39 ----
\* C39: the transport of a connected session is closed exactly once: when
\* stop() and the conversation teardown or the shutdown cleanup each call
\* close() on the same session, also while an earlier close() is still
\* suspended, the transport's exit is invoked only once, and the session
\* ends disconnected.
C39_ClosedOnce ==
    /\ [](exitCalls <= 1)
    /\ [][(session = "set" /\ session' = "none") => ~connected']_vars
    /\ [](mainPc = "done" => ~connected)

\* ---- C40 ----
\* C40: while the capture loop of a conversation is streaming, the shared
\* microphone is used and closed by the capture pipeline only: the
\* detection loop of the wake-word monitor is not running, and a step that
\* closes the microphone under the running capture loop is the pipeline's
\* own stop(), which clears _streaming and cancels the loop in the same
\* step; neither the monitor's stop() nor the controller's stop() does it.
C40_MicOwnedByCapture ==
    /\ []((streaming /\ capTask = "run") => detTask \notin {"new", "run"})
    /\ [][(streaming /\ capTask = "run" /\ micOpen /\ ~micOpen') =>
              (~streaming' /\ capTask' # "run")]_vars

====
